---- MODULE Spec2Model ----
(***************************************************************************)
(* Calendar synchronisation core of velo: the token-based (Google) and     *)
(* resource-based (CalDAV) calendar providers, the iCalendar text codec    *)
(* and the local event cache.                                              *)
(*                                                                         *)
(* Conventions.  JavaScript strings that the code inspects character by    *)
(* character (error messages, iCalendar text) are sequences of one-        *)
(* character strings; identifiers and tokens the code only compares or     *)
(* passes on are TLA+ strings.  null / undefined is Null for the latter    *)
(* and NullStr for the former.  An optional field of a TypeScript          *)
(* interface is a record field that is present or missing from DOMAIN.     *)
(***************************************************************************)
EXTENDS Integers, Sequences, FiniteSets, TLC

VARIABLES
    \* ---- GoogleCalendarProvider.syncEvents (one call) ----
    syncPc,            \* "idle" | "loop" | "returned" | "thrown"
    syncToken,         \* the syncToken argument (Null when not supplied)
    pageToken,         \* local pageToken
    nextSyncToken,     \* local nextSyncToken
    created,           \* local created[]
    updated,           \* local updated[]
    deletedRemoteIds,  \* local deletedRemoteIds[]
    syncResult,        \* the value the call returned
    syncThrown,        \* the value the call threw
    requests,          \* the requests issued to client.request, in order
    responses,         \* the responses client.request resolved with, in order
    failure,           \* the value client.request rejected with
    \* ---- calendar_events table and CalendarPage.loadEvents ----
    rows,              \* the rows of calendar_events
    nextUuid,          \* the next value crypto.randomUUID() yields
    dbTime,            \* unixepoch() of the database
    loadPc,            \* "idle" | "running" | "failed" | "done"
    batch,             \* the (calendar id, event) pairs loadEvents upserts
    pos,               \* how many of them have been upserted in this run
    rowsAtStart,       \* rows when the batch was first started
    \* ---- icalHelper: one generateVEvent / parseVEvent round ----
    codecPc,           \* "start" | "text" | "parsed"
    codecIn,           \* what the round starts from: an event or a resource
    ical,              \* the iCalendar text generated or received
    decoded,           \* the CalendarEventData parseVEvent returned
    \* ---- CalDAVProvider (one instance) and its server ----
    account,           \* the accounts row getAccount resolves with (NoValue: none)
    client,            \* this.client: Null or the DAVClient
    clientLoggedIn,    \* whether login() of that DAVClient has succeeded
    server,            \* the calendar objects of the server, in server order
    etagCount,         \* how many entity tags the server has issued
    davPc,             \* "idle" | "writing" (updateEvent between fetch and write)
    davCall,           \* the operation in progress or last completed, with arguments
    davExisting,       \* updateEvent: objects[0] of the fetch
    davWrite,          \* updateEvent: the argument of updateCalendarObject
    davResult,         \* how the last operation ended: returned value or thrown error
    davUnauth,         \* whether a request went out over a client not logged in
    davOps,            \* how many operations have been started on the provider
    foreign,           \* how many writes of other clients the server has applied
    \* ---- providerFactory ----
    providerCache,     \* the Map providerCache: account id -> provider (NoValue: no entry)
    accounts,          \* the accounts table: account id -> row (NoValue: no row)
    accountReads,      \* how often getAccount has been called, per account id
    nextInstance,      \* identity of the next provider object constructed
    facCall,           \* the last factory call or configuration change
    facResult,         \* how the last getCalendarProvider call ended
    facOps,            \* how many factory calls and configuration changes were made
    facValid,          \* history: the provider last returned per account since
                       \* the last invalidation of that account (NoValue: none)
    facThrown,         \* history: the account ids a resolution has failed for
    facSupport,        \* what the last hasCalendarSupport call returned (NoValue: none)
    \* ---- GoogleCalendarProvider.updateEvent (one call) ----
    updCall,           \* the event argument of the last call (NoValue: none)
    updBody,           \* the body of the PATCH request it issued
    updResult,         \* how the call ended: returned value or thrown error
    \* ---- reconciling sync results into the cache ----
    remoteLog,         \* per calendar, the changes the backend has seen, in order
    calendarRows,      \* the calendars table: id -> sync_token, ctag, updated_at
    recCache,          \* the cached events: (calendar id, remote id) pairs
    recPc,             \* "idle" | "applying"
    recCalendar,       \* the calendar being reconciled
    recResult,         \* the CalendarSyncResult being applied
    recDone,           \* the items of it applied so far
    recCrashed,        \* history: a crash discarded a partly applied result
    \* ---- deleteEventByRemoteId (one call) ----
    delCall,           \* the arguments of the call (NoValue: none yet)
    delBefore,         \* the table when the call was made
    delPrev,           \* the upsert executed just before the call (NoValue: none)
    \* ---- concurrent operations on one CalDAVProvider instance ----
    sessClient,        \* this.client: Null or the identity of a DAVClient
    sessNextClient,    \* identity of the next DAVClient constructed
    sessPc,            \* per operation: where it stands in getClient
    sessLocal,         \* per operation: the client it holds (Null: none)
    sessLoggedIn,      \* the clients whose login() has resolved
    sessLogins,        \* how many times login() has been called
    sessEarlyUse,      \* the operations that sent a request over a client
                       \* whose login() had not resolved
    \* ---- GoogleCalendarProvider.testConnection (one call) ----
    googleTest,        \* the value the last call returned (NoValue: no call yet)
    \* ---- EventDetailModal.handleSave (one save) ----
    edCall,            \* the arguments of the updateEvent call (NoValue: none yet)
    edReturned,        \* what updateEvent returned, or that it threw
    \* ---- concurrent getCalendarProvider calls and a settings change ----
    rcPc,              \* per caller: "idle" | "awaiting" | "resolved" | "done"
    rcRead,            \* per caller: the account row getAccount resolved with
                       \* and the configuration version it was read at
    rcGot,             \* per caller: the provider returned, or that it threw
    rcVersion,         \* how often the configuration of the account was changed
    rcSavePc,          \* the settings handler: "idle" | "written"
    rcCacheVersion,    \* history: the configuration version the cached
                       \* provider was resolved from (-1: none cached)
    rcInvalidated,     \* history: the configuration version at the last
                       \* removeCalendarProvider of a settings change (-1: none)
    \* ---- calendar discovery and the calendars table ----
    calServer,         \* the calendar collection of the server, in its order
    calTable,          \* the rows of the calendars table
    calPc,             \* "idle" | "upserting"
    calPending,        \* the CalendarInfo values still to be upserted
    calNextId,         \* the next crypto.randomUUID() of upsertCalendar
    calRuns,           \* how many discoveries have completed
    calLast,           \* the last upsertCalendar call: its argument, the table
                       \* before it and the id it returned (NoValue: none)
    \* ---- environment ----
    now,               \* the host clock, seconds since the epoch
    tz                 \* local UTC offset of the host, in seconds

syncVars == <<syncPc, syncToken, pageToken, nextSyncToken, created, updated,
              deletedRemoteIds, syncResult, syncThrown, requests, responses,
              failure>>

cacheVars == <<rows, nextUuid, dbTime, loadPc, batch, pos, rowsAtStart>>

envVars == <<now, tz>>

codecVars == <<codecPc, codecIn, ical, decoded>>

davVars == <<account, client, clientLoggedIn, server, etagCount, davPc, davCall,
             davExisting, davWrite, davResult, davUnauth, davOps, foreign>>

facVars == <<providerCache, accounts, accountReads, nextInstance, facCall, facResult,
             facOps, facValid, facThrown, facSupport>>

updVars == <<updCall, updBody, updResult>>

recVars == <<remoteLog, calendarRows, recCache, recPc, recCalendar, recResult, recDone,
             recCrashed>>

delVars == <<delCall, delBefore, delPrev>>

sessVars == <<sessClient, sessNextClient, sessPc, sessLocal, sessLoggedIn, sessLogins,
             sessEarlyUse>>

gtVars == <<googleTest>>

editVars == <<edCall, edReturned>>

raceVars == <<rcPc, rcRead, rcGot, rcVersion, rcSavePc, rcCacheVersion, rcInvalidated>>

calVars == <<calServer, calTable, calPc, calPending, calNextId, calRuns, calLast>>

vars == <<syncVars, cacheVars, codecVars, davVars, facVars, updVars, recVars, delVars, sessVars, gtVars, editVars, raceVars, calVars, envVars>>

-----------------------------------------------------------------------------
(* Bounds *)

MaxPages == 3
MaxClockSteps == 2
MaxSettingsChanges == 2
MaxDiscoveries == 2
MaxItems == 1
MaxBatch == 2
MaxUpserts == 4
MaxDbTime == 1
MaxTextLen == 2
MaxObjects == 3
MaxDavOps == 2
MaxForeign == 1
MaxFactoryOps == 3
MaxRemoteChanges == 2

-----------------------------------------------------------------------------
(* Values *)

Null == "null"
NullStr == <<"null">>
NoValue == [tag |-> "none"]

Has(r, f) == f \in DOMAIN r

\* String.prototype.includes
Includes(s, pat) ==
    \E i \in 1..(Len(s) - Len(pat) + 1) :
        \A k \in 1..Len(pat) : s[i + k - 1] = pat[k]

RECURSIVE Concat(_)
Concat(ss) == IF ss = <<>> THEN <<>> ELSE Head(ss) \o Concat(Tail(ss))

TZOffsets == {-18000, 0, 19800}

-----------------------------------------------------------------------------
(* The REST backend as seen through client.request *)

Str410 == <<"4", "1", "0">>
StrSyncToken == <<"s", "y", "n", "c", " ", "t", "o", "k", "e", "n">>

\* new Error("410 Gone"), new Error("Invalid sync token"),
\* new Error("Network error"), new Error("Sync Token gone") and the
\* non-Error values "410" and "sync token" (a rejected plain string)
Errors ==
    { [isError |-> TRUE,  message |-> Str410 \o <<" ", "G", "o", "n", "e">>],
      [isError |-> TRUE,  message |-> <<"I", "n", "v", "a", "l", "i", "d", " ">> \o StrSyncToken],
      [isError |-> TRUE,  message |-> <<"N", "e", "t", "w", "o", "r", "k">>],
      [isError |-> TRUE,  message |-> <<"S", "y", "n", "c", " ", "T", "o", "k", "e", "n">>],
      [isError |-> TRUE,  message |-> <<"4", "0", "1">>],
      [isError |-> FALSE, message |-> Str410],
      [isError |-> FALSE, message |-> StrSyncToken] }

\* Instants are whole seconds since the epoch plus milliseconds.
T1 == [sec |-> 1750428000, ms |-> 0]       \* 2025-06-20T14:00:00.000Z
T2 == [sec |-> 1750431600, ms |-> 500]     \* 2025-06-20T15:00:00.500Z
\* Dates are days since the epoch: 20259 is 2025-06-20.

\* GoogleCalendarEvent records the backend may return
Items ==
    { [id |-> "e1", status |-> "confirmed", summary |-> "Standup",
       start |-> [dateTime |-> T1], end |-> [dateTime |-> T2],
       iCalUID |-> "u1", etag |-> "t1"],
      [id |-> "e2", status |-> "cancelled"],
      [id |-> "e3", start |-> [date |-> 20259], end |-> [date |-> 20260],
       location |-> "Room", organizer |-> [email |-> "o@x"]] }

RECURSIVE SeqsUpTo(_, _)
SeqsUpTo(S, n) ==
    IF n = 0 THEN {<<>>}
    ELSE LET shorter == SeqsUpTo(S, n - 1)
         IN  shorter \cup {Append(s, x) : s \in shorter, x \in S}

ItemLists == SeqsUpTo(Items, MaxItems)

PageTokens == <<"p1", "p2", "p3", "p4", "p5", "p6">>
SyncTokens == {"s1", "s2"}

\* GoogleEventListResponse of the k-th request of a call.  Events.list
\* carries nextSyncToken only on the last page; a page with further results
\* carries nextPageToken instead.  items may be missing altogether.
Responses(k) ==
    LET more == IF k < MaxPages
                THEN {[items |-> l, nextPageToken |-> PageTokens[k]] : l \in ItemLists}
                         \cup {[nextPageToken |-> PageTokens[k]]}
                ELSE {}
        last == {[items |-> l] : l \in ItemLists}
                    \cup {[items |-> l, nextSyncToken |-> t] : l \in ItemLists, t \in SyncTokens}
                    \cup {[nextSyncToken |-> t] : t \in SyncTokens}
    IN  more \cup last

-----------------------------------------------------------------------------
(* Calendar arithmetic of the JavaScript Date object *)

NaN == -2147483647

IsNaN(x) == x = NaN

\* days since 1970-01-01 of the proleptic Gregorian date y-m-d (m in 1..12;
\* a day beyond the month's end runs on into the following months)
DaysFromCivil(y, m, d) ==
    LET yy  == IF m <= 2 THEN y - 1 ELSE y
        era == yy \div 400
        yoe == yy - era * 400
        mp  == (m + 9) % 12
        doy == (153 * mp + 2) \div 5 + d - 1
        doe == yoe * 365 + yoe \div 4 - yoe \div 100 + doy
    IN  era * 146097 + doe - 719468

\* the proleptic Gregorian date of a day number
CivilFromDays(z) ==
    LET zz  == z + 719468
        era == zz \div 146097
        doe == zz - era * 146097
        yoe == (doe - doe \div 1460 + doe \div 36524 - doe \div 146096) \div 365
        doy == doe - (365 * yoe + yoe \div 4 - yoe \div 100)
        mp  == (5 * doy + 2) \div 153
        d   == doy - (153 * mp + 2) \div 5 + 1
        m   == IF mp < 10 THEN mp + 3 ELSE mp - 9
    IN  [y |-> yoe + era * 400 + (IF m <= 2 THEN 1 ELSE 0), m |-> m, d |-> d]

\* Date.UTC(y, m, d, h, min, s) in seconds: m counts from 0 and overflows
\* into the year, years 0..99 mean 1900..1999, NaN in gives NaN out
DateUTC(y, m, d, h, min, s) ==
    IF IsNaN(y) \/ IsNaN(m) \/ IsNaN(d) \/ IsNaN(h) \/ IsNaN(min) \/ IsNaN(s)
    THEN NaN
    ELSE LET fy == IF y >= 0 /\ y <= 99 THEN 1900 + y ELSE y
             ym == fy + m \div 12
             mn == m % 12
         IN  (DaysFromCivil(ym, mn + 1, 1) + d - 1) * 86400 + h * 3600 + min * 60 + s

\* new Date(y, m, d, h, min, s).getTime() / 1000: the same fields read as
\* local time at UTC offset off
DateLocal(y, m, d, h, min, s, off) ==
    LET t == DateUTC(y, m, d, h, min, s)
    IN  IF IsNaN(t) THEN NaN ELSE t - off

\* the date and time-of-day fields of second t at UTC offset off
Fields(t, off) ==
    LET lt  == t + off
        day == lt \div 86400
        sod == lt % 86400
        c   == CivilFromDays(day)
    IN  [y |-> c.y, m |-> c.m, d |-> c.d,
         h |-> sod \div 3600, min |-> (sod % 3600) \div 60, s |-> sod % 60]

-----------------------------------------------------------------------------
(* GoogleCalendarProvider *)

JsonNull == [null |-> TRUE]
JsonStringify(v) == [json |-> v]

\* new Date(<ISO string with offset>).getTime() / 1000, floored
DateTimeSeconds(dt) == dt.sec

\* mapGoogleEvent
mapGoogleEvent(event, off) ==
    LET isAllDay  == Has(event.start, "date")
        startTime == IF Has(event.start, "dateTime")
                     THEN DateTimeSeconds(event.start.dateTime)
                     ELSE IF Has(event.start, "date")
                          THEN event.start.date * 86400 - off
                          ELSE NaN
        endTime   == IF Has(event.end, "dateTime")
                     THEN DateTimeSeconds(event.end.dateTime)
                     ELSE IF Has(event.end, "date")
                          THEN event.end.date * 86400 + 86399 - off
                          ELSE NaN
    IN  [remoteEventId  |-> event.id,
         uid            |-> IF Has(event, "iCalUID") THEN event.iCalUID ELSE Null,
         etag           |-> IF Has(event, "etag") THEN event.etag ELSE Null,
         summary        |-> IF Has(event, "summary") THEN event.summary ELSE Null,
         description    |-> IF Has(event, "description") THEN event.description ELSE Null,
         location       |-> IF Has(event, "location") THEN event.location ELSE Null,
         startTime      |-> startTime,
         endTime        |-> endTime,
         isAllDay       |-> isAllDay,
         status         |-> IF Has(event, "status") THEN event.status ELSE "confirmed",
         organizerEmail |-> IF Has(event, "organizer") THEN event.organizer.email ELSE Null,
         attendeesJson  |-> IF Has(event, "attendees")
                            THEN JsonStringify(event.attendees) ELSE JsonNull,
         htmlLink       |-> IF Has(event, "htmlLink") THEN event.htmlLink ELSE Null,
         icalData       |-> Null]

\* mutant: the time window is sent with a sync token as well
SyncParams_AlwaysWindow(token, page, clock, off) ==
    LET f       == Fields(clock, off)
        timeMin == DateLocal(f.y, f.m - 1, f.d - 90, f.h, f.min, f.s, off)
        timeMax == DateLocal(f.y + 1, f.m - 1, f.d, f.h, f.min, f.s, off)
        window  == [maxResults |-> "250", timeMin |-> timeMin, timeMax |-> timeMax,
                    singleEvents |-> "true"]
        paged   == IF page # Null
                   THEN [x \in DOMAIN window \cup {"pageToken"} |->
                            IF x = "pageToken" THEN page ELSE window[x]]
                   ELSE window
    IN  IF token # Null
        THEN [x \in DOMAIN paged \cup {"syncToken"} |->
                 IF x = "syncToken" THEN token ELSE paged[x]]
        ELSE paged

\* the query parameters of one page request (URLSearchParams)
SyncParams(token, page, clock, off) ==
    LET f       == Fields(clock, off)
        timeMin == DateLocal(f.y, f.m - 1, f.d - 90, f.h, f.min, f.s, off)
        timeMax == DateLocal(f.y + 1, f.m - 1, f.d, f.h, f.min, f.s, off)
    IN  IF token # Null
        THEN IF page # Null
             THEN [maxResults |-> "250", syncToken |-> token, pageToken |-> page]
             ELSE [maxResults |-> "250", syncToken |-> token]
        ELSE IF page # Null
             THEN [maxResults |-> "250", timeMin |-> timeMin, timeMax |-> timeMax,
                   singleEvents |-> "true", pageToken |-> page]
             ELSE [maxResults |-> "250", timeMin |-> timeMin, timeMax |-> timeMax,
                   singleEvents |-> "true"]

\* mutant: the message is read off whatever was thrown
CaughtMessage_AnyValue(err) == err.message

\* catch (err): const message = err instanceof Error ? err.message : ""
CaughtMessage(err) == IF err.isError THEN err.message ELSE <<>>

\* mutant: only the status code is recognised
IsSyncTokenExpired_Only410(err) == Includes(err.message, Str410) /\ err.isError

\* message.includes("410") || message.includes("sync token")
IsSyncTokenExpired(err) ==
    Includes(CaughtMessage(err), Str410) \/ Includes(CaughtMessage(err), StrSyncToken)

EmptySyncResult ==
    [created |-> <<>>, updated |-> <<>>, deletedRemoteIds |-> <<>>,
     newSyncToken |-> Null, newCtag |-> Null]

ResponseItems(resp) == IF Has(resp, "items") THEN resp.items ELSE <<>>

\* for (const item of response.items ?? []): the created[] after the loop
RECURSIVE PushCreated(_, _, _)
PushCreated(acc, items, off) ==
    IF items = <<>> THEN acc
    ELSE LET item == Head(items)
         IN  PushCreated(IF Has(item, "status") /\ item.status = "cancelled"
                         THEN acc
                         ELSE Append(acc, mapGoogleEvent(item, off)),
                         Tail(items), off)

\* mutant: cancelled items are skipped without recording their ids
PushDeleted_Skip(acc, items) == acc

\* for (const item of response.items ?? []): the deletedRemoteIds[] after the loop
RECURSIVE PushDeleted(_, _)
PushDeleted(acc, items) ==
    IF items = <<>> THEN acc
    ELSE LET item == Head(items)
         IN  PushDeleted(IF Has(item, "status") /\ item.status = "cancelled"
                         THEN Append(acc, item.id)
                         ELSE acc,
                         Tail(items))

\* mutant: the continuation token is not carried over
NextPageToken_Dropped(resp) == Null

\* pageToken = response.nextPageToken
NextPageToken(resp) == IF Has(resp, "nextPageToken") THEN resp.nextPageToken ELSE Null

\* if (response.nextSyncToken) nextSyncToken = response.nextSyncToken
NextSyncToken(cur, resp) == IF Has(resp, "nextSyncToken") THEN resp.nextSyncToken ELSE cur

\* syncEvents(calendarRemoteId, syncToken?) is called
SyncCall(token) ==
    /\ syncPc = "idle"
    /\ syncPc' = "loop"
    /\ syncToken' = token
    /\ pageToken' = Null
    /\ nextSyncToken' = Null
    /\ created' = <<>>
    /\ updated' = <<>>
    /\ deletedRemoteIds' = <<>>
    /\ UNCHANGED <<syncResult, syncThrown, requests, responses, failure, cacheVars, codecVars, davVars, facVars, updVars, recVars, delVars, sessVars, gtVars, editVars, raceVars, calVars, envVars>>

\* one pass of the do-while body in which client.request resolves with resp
SyncPage(resp) ==
    /\ syncPc = "loop"
    /\ requests' = Append(requests, SyncParams(syncToken, pageToken, now, tz))
    /\ responses' = Append(responses, resp)
    /\ LET c == PushCreated(created, ResponseItems(resp), tz)
           d == PushDeleted(deletedRemoteIds, ResponseItems(resp))
           s == NextSyncToken(nextSyncToken, resp)
           p == NextPageToken(resp)
       IN  /\ created' = c
           /\ deletedRemoteIds' = d
           /\ nextSyncToken' = s
           /\ pageToken' = p
           /\ IF p # Null
              THEN /\ syncPc' = "loop"
                   /\ UNCHANGED syncResult
              ELSE /\ syncPc' = "returned"
                   /\ syncResult' = [created |-> c, updated |-> updated,
                                     deletedRemoteIds |-> d,
                                     newSyncToken |-> s, newCtag |-> Null]
    /\ UNCHANGED <<syncToken, updated, syncThrown, failure, cacheVars, codecVars, davVars, facVars, updVars, recVars, delVars, sessVars, gtVars, editVars, raceVars, calVars, envVars>>

\* one pass of the do-while body in which client.request rejects with err
SyncPageFails(err) ==
    /\ syncPc = "loop"
    /\ requests' = Append(requests, SyncParams(syncToken, pageToken, now, tz))
    /\ failure' = err
    /\ IF IsSyncTokenExpired(err)
       THEN /\ syncPc' = "returned"
            /\ syncResult' = EmptySyncResult
            /\ UNCHANGED syncThrown
       ELSE /\ syncPc' = "thrown"
            /\ syncThrown' = err
            /\ UNCHANGED syncResult
    /\ UNCHANGED <<syncToken, pageToken, nextSyncToken, created, updated,
                   deletedRemoteIds, responses, cacheVars, codecVars, davVars, facVars, updVars, recVars, delVars, sessVars, gtVars, editVars, raceVars, calVars, envVars>>

SyncInit ==
    /\ syncPc = "idle"
    /\ syncToken = Null
    /\ pageToken = Null
    /\ nextSyncToken = Null
    /\ created = <<>>
    /\ updated = <<>>
    /\ deletedRemoteIds = <<>>
    /\ syncResult = NoValue
    /\ syncThrown = NoValue
    /\ requests = <<>>
    /\ responses = <<>>
    /\ failure = NoValue

EnvInit ==
    /\ now = 1750428000      \* 2025-06-20T14:00:00Z
    /\ tz \in TZOffsets

-----------------------------------------------------------------------------
(* calendar_events: upsertCalendarEvent and the loop of loadEvents *)

AccountId == "a1"
CalendarIds == {"c1", "c2"}
RemoteIds == {"e1", "e2"}

\* CalendarEventData values a provider returns for a remote id: one with
\* every field set and one with every nullable field null
FullEvent(rid) ==
    [remoteEventId |-> rid, uid |-> "u", etag |-> "t", summary |-> "S",
     description |-> "D", location |-> "L", startTime |-> 1000, endTime |-> 4600,
     isAllDay |-> FALSE, status |-> "confirmed", organizerEmail |-> "o@x",
     attendeesJson |-> JsonStringify(<<[email |-> "a@x"]>>), htmlLink |-> "h",
     icalData |-> "i"]

BareEvent(rid) ==
    [remoteEventId |-> rid, uid |-> Null, etag |-> Null, summary |-> Null,
     description |-> Null, location |-> Null, startTime |-> 0, endTime |-> 3600,
     isAllDay |-> TRUE, status |-> "tentative", organizerEmail |-> Null,
     attendeesJson |-> JsonNull, htmlLink |-> Null, icalData |-> Null]

ProviderEvents == {FullEvent(rid) : rid \in RemoteIds} \cup {BareEvent(rid) : rid \in RemoteIds}

\* upsertCalendarEventFromProvider: the argument it hands to upsertCalendarEvent
upsertCalendarEventFromProvider(accountId, calendarId, event) ==
    [accountId      |-> accountId,
     googleEventId  |-> event.remoteEventId,
     summary        |-> event.summary,
     description    |-> event.description,
     location       |-> event.location,
     startTime      |-> event.startTime,
     endTime        |-> event.endTime,
     isAllDay       |-> event.isAllDay,
     status         |-> event.status,
     organizerEmail |-> event.organizerEmail,
     attendeesJson  |-> event.attendeesJson,
     htmlLink       |-> event.htmlLink,
     calendarId     |-> calendarId,
     remoteEventId  |-> event.remoteEventId,
     etag           |-> event.etag,
     icalData       |-> event.icalData,
     uid            |-> event.uid]

\* event.f ?? null
OrNull(event, f) == IF Has(event, f) THEN event[f] ELSE Null

\* ON CONFLICT(account_id, google_event_id)
Conflicts(r, event) ==
    r.account_id = event.accountId /\ r.google_event_id = event.googleEventId

\* mutant: a null in the new event keeps the stored value (COALESCE)
UpdatedRow_KeepOnNull(r, event, t) ==
    [r EXCEPT !.summary = IF event.summary = Null THEN @ ELSE event.summary,
              !.description = IF event.description = Null THEN @ ELSE event.description,
              !.location = IF event.location = Null THEN @ ELSE event.location,
              !.start_time = event.startTime,
              !.end_time = event.endTime,
              !.is_all_day = IF event.isAllDay THEN 1 ELSE 0,
              !.status = event.status,
              !.organizer_email = event.organizerEmail,
              !.attendees_json = event.attendeesJson,
              !.html_link = event.htmlLink,
              !.calendar_id = OrNull(event, "calendarId"),
              !.remote_event_id = OrNull(event, "remoteEventId"),
              !.etag = OrNull(event, "etag"),
              !.ical_data = OrNull(event, "icalData"),
              !.uid = OrNull(event, "uid"),
              !.updated_at = t]

\* DO UPDATE SET ...: the row r after the update
UpdatedRow(r, event, t) ==
    [r EXCEPT !.summary = event.summary,
              !.description = event.description,
              !.location = event.location,
              !.start_time = event.startTime,
              !.end_time = event.endTime,
              !.is_all_day = IF event.isAllDay THEN 1 ELSE 0,
              !.status = event.status,
              !.organizer_email = event.organizerEmail,
              !.attendees_json = event.attendeesJson,
              !.html_link = event.htmlLink,
              !.calendar_id = OrNull(event, "calendarId"),
              !.remote_event_id = OrNull(event, "remoteEventId"),
              !.etag = OrNull(event, "etag"),
              !.ical_data = OrNull(event, "icalData"),
              !.uid = OrNull(event, "uid"),
              !.updated_at = t]

\* INSERT INTO calendar_events ... VALUES ($1 .. $18): the new row
\* (updated_at takes its column default)
InsertedRow(id, event, t) ==
    [id              |-> id,
     account_id      |-> event.accountId,
     google_event_id |-> event.googleEventId,
     summary         |-> event.summary,
     description     |-> event.description,
     location        |-> event.location,
     start_time      |-> event.startTime,
     end_time        |-> event.endTime,
     is_all_day      |-> IF event.isAllDay THEN 1 ELSE 0,
     status          |-> event.status,
     organizer_email |-> event.organizerEmail,
     attendees_json  |-> event.attendeesJson,
     html_link       |-> event.htmlLink,
     calendar_id     |-> OrNull(event, "calendarId"),
     remote_event_id |-> OrNull(event, "remoteEventId"),
     etag            |-> OrNull(event, "etag"),
     ical_data       |-> OrNull(event, "icalData"),
     uid             |-> OrNull(event, "uid"),
     updated_at      |-> t]

\* upsertCalendarEvent: the table after the statement, id being the
\* crypto.randomUUID() of this call and t the database time
upsertCalendarEvent(table, event, id, t) ==
    IF \E r \in table : Conflicts(r, event)
    THEN {IF Conflicts(r, event) THEN UpdatedRow(r, event, t) ELSE r : r \in table}
    ELSE table \cup {InsertedRow(id, event, t)}

\* what one run of the two loops of loadEvents upserts: for each visible
\* calendar in turn, the events fetchEvents returned for it
Batches ==
    {b \in SeqsUpTo(CalendarIds \X ProviderEvents, MaxBatch) :
         \A i, j, k \in 1..Len(b) :
             (i < j /\ j < k /\ b[i][1] = b[k][1]) => b[j][1] = b[i][1]}

UpsertArg(pair) == upsertCalendarEventFromProvider(AccountId, pair[1], pair[2])

\* loadEvents starts with the events the provider is about to return
LoadStart(b) ==
    /\ loadPc = "idle"
    /\ b # <<>>
    /\ loadPc' = "running"
    /\ batch' = b
    /\ pos' = 0
    /\ rowsAtStart' = rows
    /\ UNCHANGED <<rows, nextUuid, dbTime, syncVars, codecVars, davVars, facVars, updVars, recVars, delVars, sessVars, gtVars, editVars, raceVars, calVars, envVars>>

\* await upsertCalendarEventFromProvider(activeAccountId, cal.id, event)
LoadUpsert ==
    /\ loadPc = "running"
    /\ pos < Len(batch)
    /\ nextUuid <= MaxUpserts
    /\ rows' = upsertCalendarEvent(rows, UpsertArg(batch[pos + 1]), nextUuid, dbTime)
    /\ nextUuid' = nextUuid + 1
    /\ pos' = pos + 1
    /\ UNCHANGED <<dbTime, loadPc, batch, rowsAtStart, syncVars, codecVars, davVars, facVars, updVars, recVars, delVars, sessVars, gtVars, editVars, raceVars, calVars, envVars>>

\* a fetchEvents or upsert call of the run throws; loadEvents catches it
LoadFails ==
    /\ loadPc = "running"
    /\ pos < Len(batch)
    /\ loadPc' = "failed"
    /\ UNCHANGED <<rows, nextUuid, dbTime, batch, pos, rowsAtStart,
                   syncVars, codecVars, davVars, facVars, updVars, recVars, delVars, sessVars, gtVars, editVars, raceVars, calVars, envVars>>

\* loadEvents runs again over the same provider contents
LoadAgain ==
    /\ loadPc = "failed"
    /\ loadPc' = "running"
    /\ pos' = 0
    /\ UNCHANGED <<rows, nextUuid, dbTime, batch, rowsAtStart,
                   syncVars, codecVars, davVars, facVars, updVars, recVars, delVars, sessVars, gtVars, editVars, raceVars, calVars, envVars>>

\* both loops of loadEvents have finished
LoadDone ==
    /\ loadPc = "running"
    /\ pos = Len(batch)
    /\ loadPc' = "done"
    /\ UNCHANGED <<rows, nextUuid, dbTime, batch, pos, rowsAtStart,
                   syncVars, codecVars, davVars, facVars, updVars, recVars, delVars, sessVars, gtVars, editVars, raceVars, calVars, envVars>>

\* time passes in the database
DbTick ==
    /\ dbTime < MaxDbTime
    /\ dbTime' = dbTime + 1
    /\ UNCHANGED <<rows, nextUuid, loadPc, batch, pos, rowsAtStart,
                   syncVars, codecVars, davVars, facVars, updVars, recVars, delVars, sessVars, gtVars, editVars, raceVars, calVars, envVars>>

\* mutant: the calendar is not part of the WHERE clause
deleteEventByRemoteId_AnyCalendar(table, calendarId, remoteEventId) ==
    {r \in table : ~(r.remote_event_id = remoteEventId)}

\* deleteEventByRemoteId: the table after
\* DELETE FROM calendar_events WHERE calendar_id = $1 AND remote_event_id = $2
deleteEventByRemoteId(table, calendarId, remoteEventId) ==
    {r \in table : ~(r.calendar_id = calendarId /\ r.remote_event_id = remoteEventId)}

\* deleteEventByRemoteId(calendarId, remoteEventId) is called while no run
\* of loadEvents is in progress
DeleteByRemoteId(calendarId, remoteEventId) ==
    /\ loadPc \in {"idle", "done"}
    /\ delCall' = [calendarId |-> calendarId, remoteEventId |-> remoteEventId]
    /\ delBefore' = rows
    /\ delPrev' = IF loadPc = "done" THEN UpsertArg(batch[Len(batch)]) ELSE NoValue
    /\ rows' = deleteEventByRemoteId(rows, calendarId, remoteEventId)
    /\ loadPc' = "deleted"
    /\ UNCHANGED <<nextUuid, dbTime, batch, pos, rowsAtStart,
                   syncVars, codecVars, davVars, facVars, updVars, recVars, sessVars, gtVars, editVars, raceVars, calVars, envVars>>

DeleteByRemoteIdAny == \E c \in CalendarIds, rid \in RemoteIds : DeleteByRemoteId(c, rid)

CacheInit ==
    /\ rows = {}
    /\ nextUuid = 1
    /\ dbTime = 0
    /\ loadPc = "idle"
    /\ batch = <<>>
    /\ pos = 0
    /\ rowsAtStart = {}

LoadStartAny == \E b \in Batches : LoadStart(b)

CacheNext ==
    LoadStartAny \/ LoadUpsert \/ LoadFails \/ LoadAgain \/ LoadDone \/ DbTick \/ DeleteByRemoteIdAny

\* no generateVEvent / parseVEvent round is in progress
CodecIdle ==
    /\ codecPc = "start"
    /\ codecIn = NoValue
    /\ ical = NullStr
    /\ decoded = NoValue

\* no CalDAVProvider has been constructed
DavIdle ==
    /\ account = NoValue
    /\ client = Null
    /\ clientLoggedIn = FALSE
    /\ server = <<>>
    /\ etagCount = 0
    /\ davPc = "idle"
    /\ davCall = NoValue
    /\ davExisting = NoValue
    /\ davWrite = NoValue
    /\ davResult = NoValue
    /\ davUnauth = FALSE
    /\ davOps = 0
    /\ foreign = 0

AccountIds == {"a1", "a2"}

\* no factory call has been made and no account exists
FacIdle ==
    /\ providerCache = [a \in AccountIds |-> NoValue]
    /\ accounts = [a \in AccountIds |-> NoValue]
    /\ accountReads = [a \in AccountIds |-> 0]
    /\ nextInstance = 1
    /\ facCall = NoValue
    /\ facResult = NoValue
    /\ facOps = 0
    /\ facValid = [a \in AccountIds |-> NoValue]
    /\ facThrown = {}
    /\ facSupport = NoValue

\* no updateEvent call has been made on the GoogleCalendarProvider
UpdIdle ==
    /\ updCall = NoValue
    /\ updBody = NoValue
    /\ updResult = NoValue

RecCalendars == {"c1", "c2"}

\* nothing has been synced: both calendars without token, the cache empty
RecIdle ==
    /\ remoteLog = [c \in RecCalendars |-> <<>>]
    /\ calendarRows = [c \in RecCalendars |->
                           [sync_token |-> NoValue, ctag |-> NoValue, updated_at |-> 0]]
    /\ recCache = {}
    /\ recPc = "idle"
    /\ recCalendar = Null
    /\ recResult = NoValue
    /\ recDone = {}
    /\ recCrashed = FALSE

\* the parts of the state a specification does not exercise
DelIdle == delCall = NoValue /\ delBefore = {} /\ delPrev = NoValue

\* the operations running concurrently on the instance
SessOps == {"op1", "op2", "op3"}

\* a new CalDAVProvider: no client, no operation started
SessIdle ==
    /\ sessClient = Null
    /\ sessNextClient = 1
    /\ sessPc = [o \in SessOps |-> "idle"]
    /\ sessLocal = [o \in SessOps |-> Null]
    /\ sessLoggedIn = {}
    /\ sessLogins = 0
    /\ sessEarlyUse = {}

\* the event editor has saved nothing
EdIdle == edCall = NoValue /\ edReturned = NoValue

\* the callers of getCalendarProvider running concurrently
RaceCallers == {"g1", "g2"}

\* no caller has started and the settings were not changed
RaceIdle ==
    /\ rcPc = [c \in RaceCallers |-> "idle"]
    /\ rcRead = [c \in RaceCallers |-> NoValue]
    /\ rcGot = [c \in RaceCallers |-> NoValue]
    /\ rcVersion = 0
    /\ rcSavePc = "idle"
    /\ rcCacheVersion = -1
    /\ rcInvalidated = -1

\* no calendar was discovered: the server has no calendar, the table no row
CalIdle ==
    /\ calServer = <<>>
    /\ calTable = {}
    /\ calPc = "idle"
    /\ calPending = <<>>
    /\ calNextId = 1
    /\ calRuns = 0
    /\ calLast = NoValue

Others ==
    /\ UpdIdle /\ RecIdle /\ DelIdle /\ SessIdle /\ googleTest = NoValue /\ EdIdle
    /\ RaceIdle /\ CalIdle

CacheSpecInit == SyncInit /\ CacheInit /\ CodecIdle /\ DavIdle /\ FacIdle /\ Others /\ now = 0 /\ tz = 0

CacheSpec == CacheSpecInit /\ [][CacheNext]_vars

\* the effect on [activeAccountId, currentDate, view] runs loadEvents once
\* more after a completed run, the provider now returning b
LoadEventsAgain(b) ==
    /\ loadPc = "done"
    /\ b # <<>>
    /\ loadPc' = "running"
    /\ batch' = b
    /\ pos' = 0
    /\ rowsAtStart' = rows
    /\ UNCHANGED <<rows, nextUuid, dbTime, syncVars, codecVars, davVars, facVars, updVars,
                   recVars, delVars, sessVars, gtVars, editVars, raceVars, calVars, envVars>>

LoadEventsAgainAny == \E b \in Batches : LoadEventsAgain(b)

\* the cache over several runs of loadEvents
RefetchNext == CacheNext \/ LoadEventsAgainAny

RefetchSpec == CacheSpecInit /\ [][RefetchNext]_vars

-----------------------------------------------------------------------------
(* icalHelper: strings *)

BSL == "\\"
LF == "\n"
CR == "\r"
TAB == "\t"
SP == " "
CRLF == <<CR, LF>>

LowerLetters == <<"a", "b", "c", "d", "e", "f", "g", "h", "i", "j", "k", "l", "m", "n", "o", "p", "q", "r", "s", "t", "u", "v", "w", "x", "y", "z">>
UpperLetters == <<"A", "B", "C", "D", "E", "F", "G", "H", "I", "J", "K", "L", "M", "N", "O", "P", "Q", "R", "S", "T", "U", "V", "W", "X", "Y", "Z">>
Digits == <<"0", "1", "2", "3", "4", "5", "6", "7", "8", "9">>

\* String.prototype.toUpperCase / toLowerCase, one character
UpperChar(c) ==
    IF \E i \in 1..26 : LowerLetters[i] = c
    THEN UpperLetters[CHOOSE i \in 1..26 : LowerLetters[i] = c] ELSE c

LowerChar(c) ==
    IF \E i \in 1..26 : UpperLetters[i] = c
    THEN LowerLetters[CHOOSE i \in 1..26 : UpperLetters[i] = c] ELSE c

ToUpperCase(s) == [i \in 1..Len(s) |-> UpperChar(s[i])]
ToLowerCase(s) == [i \in 1..Len(s) |-> LowerChar(s[i])]

StartsWith(s, pat) == Len(pat) <= Len(s) /\ SubSeq(s, 1, Len(pat)) = pat
EndsWith(s, pat) == Len(pat) <= Len(s) /\ SubSeq(s, Len(s) - Len(pat) + 1, Len(s)) = pat

\* String.prototype.substring(a, b), a and b counted from 0
Substring(s, a, b) ==
    LET lo == IF a > Len(s) THEN Len(s) ELSE a
        hi == IF b > Len(s) THEN Len(s) ELSE b
    IN  SubSeq(s, lo + 1, hi)

\* s.replace(/p/g, rep) for a pattern that matches exactly the strings of
\* the set pats, all of one length n: leftmost matches, left to right
RECURSIVE ReplaceAll(_, _, _, _)
ReplaceAll(s, pats, n, rep) ==
    IF Len(s) < n THEN s
    ELSE IF SubSeq(s, 1, n) \in pats
         THEN rep \o ReplaceAll(SubSeq(s, n + 1, Len(s)), pats, n, rep)
         ELSE <<Head(s)>> \o ReplaceAll(Tail(s), pats, n, rep)

\* s.replace("p", rep) with a string pattern: the first occurrence only
RECURSIVE ReplaceFirst(_, _, _)
ReplaceFirst(s, pat, rep) ==
    IF Len(s) < Len(pat) THEN s
    ELSE IF StartsWith(s, pat)
         THEN rep \o SubSeq(s, Len(pat) + 1, Len(s))
         ELSE <<Head(s)>> \o ReplaceFirst(Tail(s), pat, rep)

\* s.split(c) for a one-character separator
RECURSIVE Split(_, _)
Split(s, c) ==
    IF \A i \in 1..Len(s) : s[i] # c THEN <<s>>
    ELSE LET i == CHOOSE k \in 1..Len(s) : s[k] = c /\ \A j \in 1..(k - 1) : s[j] # c
         IN  <<SubSeq(s, 1, i - 1)>> \o Split(SubSeq(s, i + 1, Len(s)), c)

\* parts.join(sep)
RECURSIVE Join(_, _)
Join(parts, sep) ==
    IF parts = <<>> THEN <<>>
    ELSE IF Len(parts) = 1 THEN parts[1]
         ELSE parts[1] \o sep \o Join(Tail(parts), sep)

IsDigit(c) == \E i \in 1..10 : Digits[i] = c
DigitValue(c) == (CHOOSE i \in 1..10 : Digits[i] = c) - 1

RECURSIVE DigitsValue(_, _)
DigitsValue(acc, s) ==
    IF s = <<>> \/ ~IsDigit(Head(s)) THEN acc
    ELSE DigitsValue(acc * 10 + DigitValue(Head(s)), Tail(s))

RECURSIVE SkipWhitespace(_)
SkipWhitespace(s) ==
    IF s # <<>> /\ Head(s) \in {SP, TAB, LF, CR} THEN SkipWhitespace(Tail(s)) ELSE s

\* parseInt(s, 10)
ParseInt(s) ==
    LET t    == SkipWhitespace(s)
        neg  == t # <<>> /\ Head(t) = "-"
        body == IF t # <<>> /\ Head(t) \in {"-", "+"} THEN Tail(t) ELSE t
    IN  IF body = <<>> \/ ~IsDigit(Head(body)) THEN NaN
        ELSE IF neg THEN 0 - DigitsValue(0, body) ELSE DigitsValue(0, body)

\* String(n).padStart(w, "0") of a number 0 <= n < 10^w
RECURSIVE Pad(_, _)
Pad(n, w) == IF w = 0 THEN <<>> ELSE Pad(n \div 10, w - 1) \o <<Digits[(n % 10) + 1]>>

\* String(n) of a number n >= 0
RECURSIVE NumberToString(_)
NumberToString(n) ==
    IF n < 10 THEN <<Digits[n + 1]>> ELSE NumberToString(n \div 10) \o <<Digits[(n % 10) + 1]>>

-----------------------------------------------------------------------------
(* icalHelper: generateVEvent *)

\* escapeICalText
escapeICalText(text) ==
    ReplaceAll(ReplaceAll(ReplaceAll(ReplaceAll(text,
        {<<BSL>>}, 1, <<BSL, BSL>>),
        {<<";">>}, 1, <<BSL, ";">>),
        {<<",">>}, 1, <<BSL, ",">>),
        {<<LF>>}, 1, <<BSL, "n">>)

\* unescapeICalText
unescapeICalText(text) ==
    ReplaceAll(ReplaceAll(ReplaceAll(ReplaceAll(text,
        {<<BSL, "n">>, <<BSL, "N">>}, 2, <<LF>>),
        {<<BSL, ",">>}, 2, <<",">>),
        {<<BSL, ";">>}, 2, <<";">>),
        {<<BSL, BSL>>}, 2, <<BSL>>)

\* formatDateTimeUTC: toISOString() of a date in the years 0..9999 without
\* "-", ":" and the milliseconds
formatDateTimeUTC(date) ==
    LET f == Fields(date.sec, 0)
    IN  Pad(f.y, 4) \o Pad(f.m, 2) \o Pad(f.d, 2) \o <<"T">>
            \o Pad(f.h, 2) \o Pad(f.min, 2) \o Pad(f.s, 2) \o <<"Z">>

\* mutant: the calendar date in UTC
formatDateOnly_UTC(date, off) ==
    LET f == Fields(date.sec, 0)
    IN  NumberToString(f.y) \o Pad(f.m, 2) \o Pad(f.d, 2)

\* formatDateOnly: the local calendar date
formatDateOnly(date, off) ==
    LET f == Fields(date.sec, off)
    IN  NumberToString(f.y) \o Pad(f.m, 2) \o Pad(f.d, 2)

\* a JavaScript string is truthy when it is there and not empty
Truthy(event, f) == Has(event, f) /\ event[f] # <<>>

AttendeeLines(attendees) ==
    [k \in 1..Len(attendees) |-> <<"A", "T", "T", "E", "N", "D", "E", "E", ";", "R", "S", "V", "P", "=", "T", "R", "U", "E", ":", "m", "a", "i", "l", "t", "o", ":">> \o attendees[k].email]

\* generateVEvent(event, uid): uid is NullStr when not supplied, fresh is the
\* crypto.randomUUID() and clock the new Date() of the call
generateVEvent(event, uid, fresh, clock, off) ==
    LET eventUid == IF uid # NullStr THEN uid ELSE fresh
        head  == << <<"B", "E", "G", "I", "N", ":", "V", "C", "A", "L", "E", "N", "D", "A", "R">>,
                    <<"V", "E", "R", "S", "I", "O", "N", ":", "2", ".", "0">>,
                    <<"P", "R", "O", "D", "I", "D", ":", "-", "/", "/", "V", "e", "l", "o", " ", "M", "a", "i", "l", "/", "/", "C", "a", "l", "D", "A", "V", " ", "C", "l", "i", "e", "n", "t", "/", "/", "E", "N">>,
                    <<"B", "E", "G", "I", "N", ":", "V", "E", "V", "E", "N", "T">>,
                    <<"U", "I", "D", ":">> \o eventUid,
                    <<"D", "T", "S", "T", "A", "M", "P", ":">> \o formatDateTimeUTC(clock) >>
        sum   == IF Truthy(event, "summary")
                 THEN << <<"S", "U", "M", "M", "A", "R", "Y", ":">> \o escapeICalText(event.summary) >> ELSE <<>>
        times == IF Has(event, "startTime") /\ Has(event, "endTime")
                 THEN IF Has(event, "isAllDay") /\ event.isAllDay
                      THEN << <<"D", "T", "S", "T", "A", "R", "T", ";", "V", "A", "L", "U", "E", "=", "D", "A", "T", "E", ":">> \o formatDateOnly(event.startTime, off),
                              <<"D", "T", "E", "N", "D", ";", "V", "A", "L", "U", "E", "=", "D", "A", "T", "E", ":">> \o formatDateOnly(event.endTime, off) >>
                      ELSE << <<"D", "T", "S", "T", "A", "R", "T", ":">> \o formatDateTimeUTC(event.startTime),
                              <<"D", "T", "E", "N", "D", ":">> \o formatDateTimeUTC(event.endTime) >>
                 ELSE <<>>
        desc  == IF Truthy(event, "description")
                 THEN << <<"D", "E", "S", "C", "R", "I", "P", "T", "I", "O", "N", ":">> \o escapeICalText(event.description) >> ELSE <<>>
        loc   == IF Truthy(event, "location")
                 THEN << <<"L", "O", "C", "A", "T", "I", "O", "N", ":">> \o escapeICalText(event.location) >> ELSE <<>>
        att   == IF Has(event, "attendees") THEN AttendeeLines(event.attendees) ELSE <<>>
        tail  == << <<"E", "N", "D", ":", "V", "E", "V", "E", "N", "T">>, <<"E", "N", "D", ":", "V", "C", "A", "L", "E", "N", "D", "A", "R">> >>
    IN  Join(head \o sum \o times \o desc \o loc \o att \o tail, CRLF)

-----------------------------------------------------------------------------
(* icalHelper: parseVEvent *)

\* the characters of s at the positions outside drop, in order
Without(s, drop) ==
    LET idx == SelectSeq([i \in 1..Len(s) |-> i], LAMBDA i : i \notin drop)
    IN  [k \in 1..Len(idx) |-> s[idx[k]]]

\* unfoldLines: the three replace calls, then split and filter.  No two
\* matches of /\r\n[ \t]/ or of /\r\n/ overlap, so every occurrence is a
\* match; replacing "\r\n" by "\n" removes the "\r" of each occurrence.
unfoldLines(icalData) ==
    LET folds == {i \in 1..(Len(icalData) - 2) :
                     /\ icalData[i] = CR
                     /\ icalData[i + 1] = LF
                     /\ icalData[i + 2] \in {SP, TAB}}
        s1    == Without(icalData, folds \cup {i + 1 : i \in folds} \cup {i + 2 : i \in folds})
        s2    == Without(s1, {i \in 1..(Len(s1) - 1) : s1[i] = CR /\ s1[i + 1] = LF})
        s3    == [i \in 1..Len(s2) |-> IF s2[i] = CR THEN LF ELSE s2[i]]
    IN  SelectSeq(Split(s3, LF), LAMBDA l : Len(l) > 0)

\* NaN-propagating arithmetic of JavaScript numbers
Plus(a, b) == IF IsNaN(a) \/ IsNaN(b) THEN NaN ELSE a + b

\* mutant: the UTC marker is ignored and every date read as local time
parseICalDateTime_AlwaysLocal(value, isAllDay, off) ==
    LET cleaned == ReplaceFirst(value, <<"Z">>, <<>>)
        y   == ParseInt(Substring(cleaned, 0, 4))
        m   == Plus(ParseInt(Substring(cleaned, 4, 6)), -1)
        d   == ParseInt(Substring(cleaned, 6, 8))
        h   == ParseInt(Substring(cleaned, 9, 11))
        min == ParseInt(Substring(cleaned, 11, 13))
        s0  == ParseInt(Substring(cleaned, 13, 15))
        s   == IF IsNaN(s0) THEN 0 ELSE s0
    IN  IF isAllDay THEN DateLocal(y, m, d, 0, 0, 0, off)
        ELSE DateLocal(y, m, d, h, min, s, off)

\* parseICalDateTime
parseICalDateTime(value, isAllDay, off) ==
    IF isAllDay
    THEN LET y == ParseInt(Substring(value, 0, 4))
             m == Plus(ParseInt(Substring(value, 4, 6)), -1)
             d == ParseInt(Substring(value, 6, 8))
         IN  DateLocal(y, m, d, 0, 0, 0, off)
    ELSE LET isUTC   == EndsWith(value, <<"Z">>)
             cleaned == ReplaceFirst(value, <<"Z">>, <<>>)
             y   == ParseInt(Substring(cleaned, 0, 4))
             m   == Plus(ParseInt(Substring(cleaned, 4, 6)), -1)
             d   == ParseInt(Substring(cleaned, 6, 8))
             h   == ParseInt(Substring(cleaned, 9, 11))
             min == ParseInt(Substring(cleaned, 11, 13))
             s0  == ParseInt(Substring(cleaned, 13, 15))
             s   == IF IsNaN(s0) \/ s0 = 0 THEN 0 ELSE s0
         IN  IF isUTC THEN DateUTC(y, m, d, h, min, s)
             ELSE DateLocal(y, m, d, h, min, s, off)

\* value.match(/mailto:(.+)/i): the captured group, NullStr without a match
MailtoMatch(value) ==
    LET at == {i \in 1..Len(value) :
                  /\ i + 7 <= Len(value)
                  /\ ToLowerCase(SubSeq(value, i, i + 6)) = <<"m", "a", "i", "l", "t", "o", ":">>}
    IN  IF at = {} THEN NullStr
        ELSE LET i == CHOOSE k \in at : \A j \in at : k <= j
             IN  SubSeq(value, i + 7, Len(value))

\* s.match(/KEY=([^;]+)/i): the captured group, NullStr without a match
ParamMatch(s, key) ==
    LET n  == Len(key)
        at == {i \in 1..Len(s) :
                  /\ i + n <= Len(s)
                  /\ ToUpperCase(SubSeq(s, i, i + n - 1)) = key
                  /\ s[i + n] # ";"}
    IN  IF at = {} THEN NullStr
        ELSE LET i    == CHOOSE k \in at : \A j \in at : k <= j
                 rest == SubSeq(s, i + n, Len(s))
             IN  Head(Split(rest, ";"))

\* cn.replace(/^"(.*)"$/, "$1")
StripQuotes(cn) ==
    IF Len(cn) >= 2 /\ Head(cn) = "\"" /\ cn[Len(cn)] = "\""
    THEN SubSeq(cn, 2, Len(cn) - 1) ELSE cn

\* the object pushed onto attendees for an ATTENDEE line
AttendeeOf(email, nameWithParams) ==
    LET cn == ParamMatch(nameWithParams, <<"C", "N", "=">>)
        ps == ParamMatch(nameWithParams, <<"P", "A", "R", "T", "S", "T", "A", "T", "=">>)
    IN  IF cn # NullStr
        THEN IF ps # NullStr
             THEN [email |-> email, displayName |-> StripQuotes(cn),
                   responseStatus |-> ToLowerCase(ps)]
             ELSE [email |-> email, displayName |-> StripQuotes(cn)]
        ELSE IF ps # NullStr
             THEN [email |-> email, responseStatus |-> ToLowerCase(ps)]
             ELSE [email |-> email]

\* the local variables of parseVEvent before the loop over the lines
ParseStart ==
    [uid |-> NullStr, summary |-> NullStr, description |-> NullStr,
     location |-> NullStr, dtstart |-> NullStr, dtend |-> NullStr,
     status |-> <<"c", "o", "n", "f", "i", "r", "m", "e", "d">>, organizerEmail |-> NullStr, isAllDay |-> FALSE,
     attendees |-> <<>>]

\* one pass of the loop of parseVEvent: the locals after the line
ParseLine(st, line) ==
    LET parts          == Split(line, ":")
        nameWithParams == Head(parts)
        value          == Join(Tail(parts), <<":">>)
        nameParts      == Split(nameWithParams, ";")
        propName       == ToUpperCase(Head(nameParts))
        params         == ToUpperCase(Join(Tail(nameParts), <<";">>))
    IN  IF nameWithParams = <<>> THEN st
        ELSE CASE propName = <<"U", "I", "D">> -> [st EXCEPT !.uid = value]
               [] propName = <<"S", "U", "M", "M", "A", "R", "Y">> -> [st EXCEPT !.summary = unescapeICalText(value)]
               [] propName = <<"D", "E", "S", "C", "R", "I", "P", "T", "I", "O", "N">> ->
                      [st EXCEPT !.description = unescapeICalText(value)]
               [] propName = <<"L", "O", "C", "A", "T", "I", "O", "N">> -> [st EXCEPT !.location = unescapeICalText(value)]
               [] propName = <<"D", "T", "S", "T", "A", "R", "T">> ->
                      [st EXCEPT !.dtstart = value,
                                 !.isAllDay = IF Includes(params, <<"V", "A", "L", "U", "E", "=", "D", "A", "T", "E">>)
                                                 /\ ~Includes(params, <<"V", "A", "L", "U", "E", "=", "D", "A", "T", "E", "-", "T", "I", "M", "E">>)
                                              THEN TRUE ELSE @]
               [] propName = <<"D", "T", "E", "N", "D">> -> [st EXCEPT !.dtend = value]
               [] propName = <<"S", "T", "A", "T", "U", "S">> -> [st EXCEPT !.status = ToLowerCase(value)]
               [] propName = <<"O", "R", "G", "A", "N", "I", "Z", "E", "R">> ->
                      IF MailtoMatch(value) # NullStr
                      THEN [st EXCEPT !.organizerEmail = MailtoMatch(value)] ELSE st
               [] propName = <<"A", "T", "T", "E", "N", "D", "E", "E">> ->
                      IF MailtoMatch(value) # NullStr
                      THEN [st EXCEPT !.attendees =
                                Append(@, AttendeeOf(MailtoMatch(value), nameWithParams))]
                      ELSE st
               [] OTHER -> st

RECURSIVE ParseLines(_, _)
ParseLines(st, lines) ==
    IF lines = <<>> THEN st ELSE ParseLines(ParseLine(st, Head(lines)), Tail(lines))

\* mutant: the default end is the end of the start day
DefaultEndTime_Day(startTime) == Plus(startTime, 86400)

\* startTime + 3600
DefaultEndTime(startTime) == Plus(startTime, 3600)

\* mutant: the UID value is preferred to the locator
ParsedEvent_UidFirst(st, icalData, href, fresh, off) ==
    LET startTime == IF st.dtstart # NullStr /\ st.dtstart # <<>>
                     THEN parseICalDateTime(st.dtstart, st.isAllDay, off) ELSE 0
        endTime   == IF st.dtend # NullStr /\ st.dtend # <<>>
                     THEN parseICalDateTime(st.dtend, st.isAllDay, off)
                     ELSE DefaultEndTime(startTime)
    IN  [remoteEventId  |-> IF st.uid # NullStr THEN st.uid
                            ELSE IF href # NullStr THEN href ELSE fresh,
         uid            |-> st.uid,
         etag           |-> NullStr,
         summary        |-> st.summary,
         description    |-> st.description,
         location       |-> st.location,
         startTime      |-> startTime,
         endTime        |-> endTime,
         isAllDay       |-> st.isAllDay,
         status         |-> st.status,
         organizerEmail |-> st.organizerEmail,
         attendeesJson  |-> IF Len(st.attendees) > 0
                            THEN JsonStringify(st.attendees) ELSE JsonNull,
         htmlLink       |-> NullStr,
         icalData       |-> icalData]

\* parseVEvent(icalData, href): href is NullStr when not supplied and fresh
\* is the crypto.randomUUID() of the call

\* the object parseVEvent returns, st being the locals after the loop
ParsedEvent(st, icalData, href, fresh, off) ==
    LET startTime == IF st.dtstart # NullStr /\ st.dtstart # <<>>
                     THEN parseICalDateTime(st.dtstart, st.isAllDay, off) ELSE 0
        endTime   == IF st.dtend # NullStr /\ st.dtend # <<>>
                     THEN parseICalDateTime(st.dtend, st.isAllDay, off)
                     ELSE DefaultEndTime(startTime)
    IN  [remoteEventId  |-> IF href # NullStr THEN href
                            ELSE IF st.uid # NullStr THEN st.uid ELSE fresh,
         uid            |-> st.uid,
         etag           |-> NullStr,
         summary        |-> st.summary,
         description    |-> st.description,
         location       |-> st.location,
         startTime      |-> startTime,
         endTime        |-> endTime,
         isAllDay       |-> st.isAllDay,
         status         |-> st.status,
         organizerEmail |-> st.organizerEmail,
         attendeesJson  |-> IF Len(st.attendees) > 0
                            THEN JsonStringify(st.attendees) ELSE JsonNull,
         htmlLink       |-> NullStr,
         icalData       |-> icalData]

\* parseVEvent(icalData, href): href is NullStr when not supplied and fresh
\* is the crypto.randomUUID() of the call
parseVEvent(icalData, href, fresh, off) ==
    ParsedEvent(ParseLines(ParseStart, unfoldLines(icalData)), icalData, href, fresh, off)

-----------------------------------------------------------------------------
(* icalHelper: the rounds explored *)

UuidText(n) == <<"u", "u", "i", "d", "-">> \o NumberToString(n)

TextChars == {"a", "n", ";", ",", BSL, LF}

Texts == SeqsUpTo(TextChars, MaxTextLen)

\* 1970-01-01T00:00:00.000Z, 2025-06-20T14:00:00.000Z, 2025-06-20T15:00:00.999Z,
\* 2024-02-29T23:59:59.500Z, 1999-12-31T23:59:59.000Z, 1969-12-31T23:59:59.500Z
Instants ==
    { [sec |-> 0, ms |-> 0], T1, [sec |-> 1750431600, ms |-> 999],
      [sec |-> 1709251199, ms |-> 500], [sec |-> 946684799, ms |-> 0],
      [sec |-> -1, ms |-> 500] }

Uids == {NullStr, <<"u", "1">>, <<"a", ":", "b", ";", "c">>}

\* CreateEventInput / UpdateEventInput values: one text field carrying a
\* text, and timed or all-day events over the instants
TextEvents ==
    {[summary |-> t, startTime |-> T1, endTime |-> T2] : t \in Texts}
        \cup {[summary |-> <<"x">>, description |-> t, startTime |-> T1, endTime |-> T2] : t \in Texts}
        \cup {[summary |-> <<"x">>, location |-> t, startTime |-> T1, endTime |-> T2] : t \in Texts}

TimedEvents ==
    {[summary |-> <<"x">>, startTime |-> a, endTime |-> b] : a \in Instants, b \in Instants}
        \cup {[summary |-> <<"x">>, startTime |-> a, endTime |-> b, isAllDay |-> d] :
                  a \in Instants, b \in Instants, d \in BOOLEAN}

EventRounds ==
    {[kind |-> "event", event |-> e, uid |-> <<"r", "t">>] : e \in TextEvents}
        \cup {[kind |-> "event", event |-> e, uid |-> u] : e \in TimedEvents, u \in Uids}

\* resources whose SUMMARY is folded once: the line end used throughout,
\* the whitespace that marks the continuation, and the two halves
FoldedRounds ==
    {[kind |-> "folded", term |-> t, ws |-> w, head |-> <<"a", "b">>, tail |-> r] :
         t \in {CRLF, <<LF>>, <<CR>>}, w \in {SP, TAB}, r \in {<<"c">>, <<" ", "c">>}}

FoldedText(r) ==
    Join(<< <<"B", "E", "G", "I", "N", ":", "V", "E", "V", "E", "N", "T">>,
            <<"U", "I", "D", ":", "f", "o", "l", "d", "-", "1">>,
            <<"S", "U", "M", "M", "A", "R", "Y", ":">> \o r.head,
            <<r.ws>> \o r.tail,
            <<"D", "T", "S", "T", "A", "R", "T", ":", "2", "0", "2", "5", "0", "6", "2", "0", "T", "1", "0", "0", "0", "0", "0", "Z">>,
            <<"D", "T", "E", "N", "D", ":", "2", "0", "2", "5", "0", "6", "2", "0", "T", "1", "1", "0", "0", "0", "0", "Z">>,
            <<"E", "N", "D", ":", "V", "E", "V", "E", "N", "T">> >>, r.term)

\* resources with some property lines left out
SparseRounds ==
    [kind : {"sparse"}, dtstart : {"none", "utc", "local", "date"},
     dtend : {"none", "utc", "date"}, status : BOOLEAN, texts : BOOLEAN,
     organizer : BOOLEAN, attendee : BOOLEAN]

SparseText(r) ==
    Join(<< <<"B", "E", "G", "I", "N", ":", "V", "C", "A", "L", "E", "N", "D", "A", "R">>, <<"B", "E", "G", "I", "N", ":", "V", "E", "V", "E", "N", "T">>, <<"U", "I", "D", ":", "m", "i", "n", "i", "m", "a", "l", "-", "1">> >>
         \o (IF r.texts THEN << <<"S", "U", "M", "M", "A", "R", "Y", ":", "S">>, <<"D", "E", "S", "C", "R", "I", "P", "T", "I", "O", "N", ":", "D">>, <<"L", "O", "C", "A", "T", "I", "O", "N", ":", "L">> >> ELSE <<>>)
         \o (CASE r.dtstart = "utc" -> << <<"D", "T", "S", "T", "A", "R", "T", ":", "2", "0", "2", "5", "0", "6", "2", "0", "T", "1", "0", "0", "0", "0", "0", "Z">> >>
               [] r.dtstart = "local" -> << <<"D", "T", "S", "T", "A", "R", "T", ":", "2", "0", "2", "5", "0", "6", "2", "0", "T", "1", "0", "0", "0", "0", "0">> >>
               [] r.dtstart = "date" -> << <<"D", "T", "S", "T", "A", "R", "T", ";", "V", "A", "L", "U", "E", "=", "D", "A", "T", "E", ":", "2", "0", "2", "5", "0", "6", "2", "0">> >>
               [] OTHER -> <<>>)
         \o (CASE r.dtend = "utc" -> << <<"D", "T", "E", "N", "D", ":", "2", "0", "2", "5", "0", "6", "2", "0", "T", "1", "1", "0", "0", "0", "0", "Z">> >>
               [] r.dtend = "date" -> << <<"D", "T", "E", "N", "D", ";", "V", "A", "L", "U", "E", "=", "D", "A", "T", "E", ":", "2", "0", "2", "5", "0", "6", "2", "1">> >>
               [] OTHER -> <<>>)
         \o (IF r.status THEN << <<"S", "T", "A", "T", "U", "S", ":", "T", "E", "N", "T", "A", "T", "I", "V", "E">> >> ELSE <<>>)
         \o (IF r.organizer THEN << <<"O", "R", "G", "A", "N", "I", "Z", "E", "R", ";", "C", "N", "=", "B", "o", "s", "s", ":", "m", "a", "i", "l", "t", "o", ":", "b", "o", "s", "s", "@", "e", "x", "a", "m", "p", "l", "e", ".", "c", "o", "m">> >> ELSE <<>>)
         \o (IF r.attendee
             THEN << <<"A", "T", "T", "E", "N", "D", "E", "E", ";", "C", "N", "=", "\"", "A", "l", "\"", ";", "P", "A", "R", "T", "S", "T", "A", "T", "=", "A", "C", "C", "E", "P", "T", "E", "D", ":", "M", "A", "I", "L", "T", "O", ":", "a", "l", "@", "e", "x", "a", "m", "p", "l", "e", ".", "c", "o", "m">> >> ELSE <<>>)
         \o << <<"E", "N", "D", ":", "V", "E", "V", "E", "N", "T">>, <<"E", "N", "D", ":", "V", "C", "A", "L", "E", "N", "D", "A", "R">> >>, CRLF)

\* resources that differ in their UID line: none, one with an empty value,
\* a plain one, one whose value contains ":" and ";", and a lower-case name
IdentRounds == [kind : {"ident"}, uidLine : {"none", "empty", "plain", "colon", "lower"}]

IdentUid(r) ==
    CASE r.uidLine = "none"  -> NullStr
      [] r.uidLine = "empty" -> <<>>
      [] r.uidLine = "plain" -> <<"e", "v", "e", "n", "t", "-", "1">>
      [] r.uidLine = "colon" -> <<"a", ":", "b", ";", "c">>
      [] r.uidLine = "lower" -> <<"e", "v", "e", "n", "t", "-", "2">>

IdentText(r) ==
    Join(<< <<"B", "E", "G", "I", "N", ":", "V", "C", "A", "L", "E", "N", "D", "A", "R">>, <<"B", "E", "G", "I", "N", ":", "V", "E", "V", "E", "N", "T">> >>
         \o (CASE r.uidLine = "none"  -> <<>>
               [] r.uidLine = "lower" -> << <<"u", "i", "d", ":">> \o IdentUid(r) >>
               [] OTHER -> << <<"U", "I", "D", ":">> \o IdentUid(r) >>)
         \o << <<"S", "U", "M", "M", "A", "R", "Y", ":", "S">>, <<"D", "T", "S", "T", "A", "R", "T", ":", "2", "0", "2", "5", "0", "6", "2", "0", "T", "1", "0", "0", "0", "0", "0", "Z">>, <<"E", "N", "D", ":", "V", "E", "V", "E", "N", "T">>, <<"E", "N", "D", ":", "V", "C", "A", "L", "E", "N", "D", "A", "R">> >>, CRLF)

\* resources that differ in the value of their STATUS line: the three values
\* of an event in some spelling, a value of another component, no value
StatusValues ==
    {<<"C", "O", "N", "F", "I", "R", "M", "E", "D">>, <<"T", "e", "n", "t", "a", "t", "i", "v", "e">>, <<"c", "a", "n", "c", "e", "l", "l", "e", "d">>, <<"N", "E", "E", "D", "S", "-", "A", "C", "T", "I", "O", "N">>, <<>>}

StatusRounds == [kind : {"status"}, value : StatusValues]

StatusText(r) ==
    Join(<< <<"B", "E", "G", "I", "N", ":", "V", "C", "A", "L", "E", "N", "D", "A", "R">>, <<"B", "E", "G", "I", "N", ":", "V", "E", "V", "E", "N", "T">>,
            <<"U", "I", "D", ":", "s", "t", "a", "t", "u", "s", "-", "1">>,
            <<"S", "T", "A", "T", "U", "S", ":">> \o r.value,
            <<"D", "T", "S", "T", "A", "R", "T", ":", "2", "0", "2", "5", "0", "6", "2", "0", "T", "1", "0", "0", "0", "0", "0", "Z">>,
            <<"E", "N", "D", ":", "V", "E", "V", "E", "N", "T">>, <<"E", "N", "D", ":", "V", "C", "A", "L", "E", "N", "D", "A", "R">> >>, CRLF)

\* resources that carry another component besides the event's own
\* properties: none, a VALARM nested in the VEVENT, a VTIMEZONE before the
\* VEVENT, a VTIMEZONE after it, a VTODO after it
NestedRounds ==
    [kind : {"nested"}, component : {"none", "valarm", "zoneBefore", "zoneAfter", "todo"}]

VTimezoneLines ==
    << <<"B", "E", "G", "I", "N", ":", "V", "T", "I", "M", "E", "Z", "O", "N", "E">>, <<"T", "Z", "I", "D", ":", "E", "u", "r", "o", "p", "e", "/", "B", "e", "r", "l", "i", "n">>, <<"B", "E", "G", "I", "N", ":", "S", "T", "A", "N", "D", "A", "R", "D">>,
       <<"D", "T", "S", "T", "A", "R", "T", ":", "1", "9", "7", "0", "1", "0", "2", "5", "T", "0", "3", "0", "0", "0", "0">>, <<"T", "Z", "O", "F", "F", "S", "E", "T", "F", "R", "O", "M", ":", "+", "0", "2", "0", "0">>, <<"T", "Z", "O", "F", "F", "S", "E", "T", "T", "O", ":", "+", "0", "1", "0", "0">>,
       <<"E", "N", "D", ":", "S", "T", "A", "N", "D", "A", "R", "D">>, <<"E", "N", "D", ":", "V", "T", "I", "M", "E", "Z", "O", "N", "E">> >>

NestedText(r) ==
    Join(<< <<"B", "E", "G", "I", "N", ":", "V", "C", "A", "L", "E", "N", "D", "A", "R">> >>
         \o (IF r.component = "zoneBefore" THEN VTimezoneLines ELSE <<>>)
         \o << <<"B", "E", "G", "I", "N", ":", "V", "E", "V", "E", "N", "T">>, <<"U", "I", "D", ":", "n", "e", "s", "t", "e", "d", "-", "1">>, <<"S", "U", "M", "M", "A", "R", "Y", ":", "S">>, <<"D", "E", "S", "C", "R", "I", "P", "T", "I", "O", "N", ":", "D">>, <<"L", "O", "C", "A", "T", "I", "O", "N", ":", "L">>,
               <<"D", "T", "S", "T", "A", "R", "T", ":", "2", "0", "2", "5", "0", "6", "2", "0", "T", "1", "0", "0", "0", "0", "0", "Z">>, <<"D", "T", "E", "N", "D", ":", "2", "0", "2", "5", "0", "6", "2", "0", "T", "1", "1", "0", "0", "0", "0", "Z">> >>
         \o (IF r.component = "valarm"
             THEN << <<"B", "E", "G", "I", "N", ":", "V", "A", "L", "A", "R", "M">>, <<"A", "C", "T", "I", "O", "N", ":", "D", "I", "S", "P", "L", "A", "Y">>, <<"D", "E", "S", "C", "R", "I", "P", "T", "I", "O", "N", ":", "R">>, <<"T", "R", "I", "G", "G", "E", "R", ":", "-", "P", "T", "1", "5", "M">>,
                     <<"E", "N", "D", ":", "V", "A", "L", "A", "R", "M">> >>
             ELSE <<>>)
         \o << <<"E", "N", "D", ":", "V", "E", "V", "E", "N", "T">> >>
         \o (IF r.component = "zoneAfter" THEN VTimezoneLines ELSE <<>>)
         \o (IF r.component = "todo"
             THEN << <<"B", "E", "G", "I", "N", ":", "V", "T", "O", "D", "O">>, <<"U", "I", "D", ":", "t", "o", "d", "o", "-", "1">>, <<"S", "U", "M", "M", "A", "R", "Y", ":", "T">>, <<"E", "N", "D", ":", "V", "T", "O", "D", "O">> >>
             ELSE <<>>)
         \o << <<"E", "N", "D", ":", "V", "C", "A", "L", "E", "N", "D", "A", "R">> >>, CRLF)

\* the href arguments parseVEvent is called with: none, a resource url, ""
ParseHrefs == {NullStr, <<"/", "c", "a", "l", "/", "e", "1", ".", "i", "c", "s">>, <<>>}

\* generateVEvent(event, uid) is called
Generate ==
    /\ codecPc = "start"
    /\ codecIn.kind = "event"
    /\ ical' = generateVEvent(codecIn.event, codecIn.uid, UuidText(nextUuid), [sec |-> now, ms |-> 0], tz)
    /\ nextUuid' = IF codecIn.uid = NullStr THEN nextUuid + 1 ELSE nextUuid
    /\ codecPc' = "text"
    /\ UNCHANGED <<codecIn, decoded, rows, dbTime, loadPc, batch, pos, rowsAtStart,
                   syncVars, davVars, facVars, updVars, recVars, delVars, sessVars, gtVars, editVars, raceVars, calVars, envVars>>

\* a calendar resource arrives from the server
Receive ==
    /\ codecPc = "start"
    /\ codecIn.kind \in {"folded", "sparse", "ident", "status", "nested"}
    /\ ical' = CASE codecIn.kind = "folded" -> FoldedText(codecIn)
                 [] codecIn.kind = "sparse" -> SparseText(codecIn)
                 [] codecIn.kind = "ident"  -> IdentText(codecIn)
                 [] codecIn.kind = "status" -> StatusText(codecIn)
                 [] codecIn.kind = "nested" -> NestedText(codecIn)
    /\ codecPc' = "text"
    /\ UNCHANGED <<codecIn, decoded, cacheVars, syncVars, davVars, facVars, updVars, recVars, delVars, sessVars, gtVars, editVars, raceVars, calVars, envVars>>

\* parseVEvent(icalData, href) is called
Parse(href) ==
    /\ codecPc = "text"
    /\ LET ev == parseVEvent(ical, href, UuidText(nextUuid), tz)
       IN  /\ decoded' = ev
           /\ nextUuid' = IF href = NullStr /\ ev.uid = NullStr
                          THEN nextUuid + 1 ELSE nextUuid
    /\ codecPc' = "parsed"
    /\ UNCHANGED <<codecIn, ical, rows, dbTime, loadPc, batch, pos, rowsAtStart,
                   syncVars, davVars, facVars, updVars, recVars, delVars, sessVars, gtVars, editVars, raceVars, calVars, envVars>>

CodecInit ==
    /\ codecPc = "start"
    /\ codecIn \in EventRounds \cup FoldedRounds \cup SparseRounds \cup IdentRounds
                    \cup StatusRounds \cup NestedRounds
    /\ ical = NullStr
    /\ decoded = NoValue

ParseAny == \E href \in ParseHrefs : Parse(href)

CodecNext == Generate \/ Receive \/ ParseAny

CodecSpecInit == SyncInit /\ CacheInit /\ CodecInit /\ DavIdle /\ FacIdle /\ Others /\ EnvInit

CodecSpec == CodecSpecInit /\ [][CodecNext]_vars

-----------------------------------------------------------------------------
(* CalDAVProvider *)

\* a JavaScript value is truthy when it is neither null nor the empty string
TruthyValue(v) == v # Null /\ v # ""

\* accounts rows as getClient reads them: caldav_url and caldav_password
DavAccounts ==
    {NoValue} \cup
    [email : {"u@x"}, caldav_url : {Null, "https://dav.example"},
     caldav_username : {Null}, caldav_password : {Null, "pw"}]

EtagText(n) == <<"t">> \o NumberToString(n)

CalendarUrl == <<"/", "c", "/">>

\* calendar objects a server may hold when the provider is constructed:
\* a full event, an object without payload, an all-day event without UID
FullResource ==
    SparseText([kind |-> "sparse", dtstart |-> "utc", dtend |-> "utc", status |-> TRUE,
                texts |-> TRUE, organizer |-> TRUE, attendee |-> TRUE])

AllDayResource ==
    Join(<< <<"B", "E", "G", "I", "N", ":", "V", "E", "V", "E", "N", "T">>, <<"S", "U", "M", "M", "A", "R", "Y", ":", "D", "a", "y">>, <<"D", "T", "S", "T", "A", "R", "T", ";", "V", "A", "L", "U", "E", "=", "D", "A", "T", "E", ":", "2", "0", "2", "5", "0", "6", "2", "0">>,
            <<"D", "T", "E", "N", "D", ";", "V", "A", "L", "U", "E", "=", "D", "A", "T", "E", ":", "2", "0", "2", "5", "0", "6", "2", "1">>, <<"E", "N", "D", ":", "V", "E", "V", "E", "N", "T">> >>, CRLF)

DavObjectPool ==
    << [url |-> <<"/", "c", "/", "1", ".", "i", "c", "s">>, data |-> FullResource],
       [url |-> <<"/", "c", "/", "2", ".", "i", "c", "s">>],
       [url |-> <<"/", "c", "/", "3", ".", "i", "c", "s">>, data |-> AllDayResource] >>

DavUrls == {DavObjectPool[k].url : k \in 1..Len(DavObjectPool)}

\* the object with the k-th entity tag the server issued
Tagged(obj, k) == [f \in DOMAIN obj \cup {"etag"} |-> IF f = "etag" THEN EtagText(k) ELSE obj[f]]

\* the servers explored: the first objects of the pool, up to MaxObjects,
\* tagged in order
InitialServers ==
    {[k \in 1..n |-> Tagged(DavObjectPool[k], k)] :
        n \in {m \in 0..Len(DavObjectPool) : m <= MaxObjects}}

\* obj.data is truthy
HasPayload(obj) == Has(obj, "data") /\ obj.data # <<>>

\* mutant: the REPORT is not restricted to the url
ObjectsAt_All(srv, url) == srv

\* the objects a REPORT for object urls resolves with
ObjectsAt(srv, url) == SelectSeq(srv, LAMBDA o : o.url = url)

\* mutant: the credentials are not checked before the client is constructed
GetClient_Unchecked(loginOk) ==
    IF client # Null
    THEN [tag |-> "client", client |-> client, loggedIn |-> clientLoggedIn]
    ELSE IF account = NoValue
    THEN [tag |-> "thrown", cause |-> "config", message |-> "Account not found",
          client |-> client, loggedIn |-> clientLoggedIn]
    ELSE IF loginOk
    THEN [tag |-> "client", client |-> "DAVClient", loggedIn |-> TRUE]
    ELSE [tag |-> "thrown", cause |-> "login", message |-> "Invalid credentials",
          client |-> "DAVClient", loggedIn |-> FALSE]

\* getClient: how the call ends and what this.client is afterwards.
\* loginOk tells whether login() would resolve.
GetClient(loginOk) ==
    IF client # Null
    THEN [tag |-> "client", client |-> client, loggedIn |-> clientLoggedIn]
    ELSE IF account = NoValue
    THEN [tag |-> "thrown", cause |-> "config", message |-> "Account not found",
          client |-> client, loggedIn |-> clientLoggedIn]
    ELSE IF ~TruthyValue(account.caldav_url) \/ ~TruthyValue(account.caldav_password)
    THEN [tag |-> "thrown", cause |-> "config",
          message |-> "CalDAV credentials not configured",
          client |-> client, loggedIn |-> clientLoggedIn]
    ELSE IF loginOk
    THEN [tag |-> "client", client |-> "DAVClient", loggedIn |-> TRUE]
    ELSE [tag |-> "thrown", cause |-> "login", message |-> "Invalid credentials",
          client |-> "DAVClient", loggedIn |-> FALSE]

\* what the catch of an operation sees when getClient threw
Thrown(g) == [tag |-> "thrown", cause |-> g.cause, message |-> g.message]

\* a request over a client whose login() did not resolve: the account was
\* never discovered and the server refuses the request
Refused == [tag |-> "thrown", cause |-> "request", message |-> "401 Unauthorized"]

Returned(v) == [tag |-> "returned", value |-> v]

\* the CalendarInfo list of the one calendar collection of the server
CalendarInfos ==
    << [remoteId |-> CalendarUrl, displayName |-> "Work", color |-> Null,
        isPrimary |-> TRUE] >>

\* mutant: objects without payload are decoded as empty text
DavEventsOf_KeepEmpty(objects, fresh, off) ==
    [k \in 1..Len(objects) |->
        [parseVEvent(IF HasPayload(objects[k]) THEN objects[k].data ELSE <<>>,
                     objects[k].url, fresh, off)
            EXCEPT !.etag = IF Has(objects[k], "etag") THEN objects[k].etag ELSE NullStr]]

\* objects.filter((obj) => obj.data).map(...): parseVEvent(obj.data, obj.url)
\* with etag set to obj.etag ?? null
DavEventsOf(objects, fresh, off) ==
    LET kept == SelectSeq(objects, HasPayload)
    IN  [k \in 1..Len(kept) |->
            [parseVEvent(kept[k].data, kept[k].url, fresh, off)
                EXCEPT !.etag = IF Has(kept[k], "etag") THEN kept[k].etag ELSE NullStr]]

\* the part every operation starts with: const client = await this.getClient()
\* followed by the first request over that client
Connect(g) ==
    /\ client' = g.client
    /\ clientLoggedIn' = g.loggedIn
    /\ davUnauth' = (davUnauth \/ (g.tag = "client" /\ ~g.loggedIn))

\* how an operation ends whose request would resolve with value v
Outcome(g, v) ==
    IF g.tag = "thrown" THEN Thrown(g)
    ELSE IF ~g.loggedIn THEN Refused
    ELSE Returned(v)

\* listCalendars
ListCalendars(loginOk) ==
    /\ davPc = "idle"
    /\ davOps < MaxDavOps
    /\ davOps' = davOps + 1
    /\ LET g == GetClient(loginOk)
       IN  /\ Connect(g)
           /\ davResult' = Outcome(g, CalendarInfos)
    /\ davCall' = [name |-> "listCalendars"]
    /\ UNCHANGED <<account, server, etagCount, davPc, davExisting, davWrite, foreign,
                   syncVars, cacheVars, codecVars, facVars, updVars, recVars, delVars, sessVars, gtVars, editVars, raceVars, calVars, envVars>>

\* how the request for the calendar list ends: it resolves, rejects with an
\* Error, or rejects with a value that is not an Error (a plain string)
ListOutcomes ==
    { [ok |-> TRUE,  isError |-> TRUE,  message |-> ""],
      [ok |-> FALSE, isError |-> TRUE,  message |-> "Unauthorized"],
      [ok |-> FALSE, isError |-> FALSE, message |-> "something went wrong"] }

\* mutant: the message of whatever was thrown
FailureMessage_Any(err) == err.message

\* catch (err): err instanceof Error ? err.message : "Connection failed"
FailureMessage(err) ==
    IF ~Has(err, "isError") \/ err.isError THEN err.message ELSE "Connection failed"

\* testConnection: getClient and fetchCalendars inside try; the catch resets
\* this.client and returns the failure
TestConnection(loginOk, list) ==
    /\ davPc = "idle"
    /\ davOps < MaxDavOps
    /\ davOps' = davOps + 1
    /\ LET g == GetClient(loginOk)
           r == IF Outcome(g, CalendarInfos).tag = "returned" /\ ~list.ok
                THEN [tag |-> "thrown", cause |-> "request", isError |-> list.isError,
                      message |-> list.message]
                ELSE Outcome(g, CalendarInfos)
       IN  IF r.tag = "thrown"
           THEN /\ client' = Null
                /\ clientLoggedIn' = FALSE
                /\ davUnauth' = (davUnauth \/ (g.tag = "client" /\ ~g.loggedIn))
                /\ davResult' = Returned([success |-> FALSE, message |-> FailureMessage(r)])
           ELSE /\ Connect(g)
                /\ davResult' = Returned([success |-> TRUE,
                                          message |-> "Connected - found 1 calendar"])
    /\ davCall' = [name |-> "testConnection"]
    /\ UNCHANGED <<account, server, etagCount, davPc, davExisting, davWrite, foreign,
                   syncVars, cacheVars, codecVars, facVars, updVars, recVars, delVars, sessVars, gtVars, editVars, raceVars, calVars, envVars>>

\* GoogleCalendarProvider.testConnection: listCalendars inside try
GoogleTestConnection(list) ==
    /\ googleTest' = IF list.ok
                     THEN [success |-> TRUE, message |-> "Connected to Google Calendar"]
                     ELSE [success |-> FALSE, message |-> FailureMessage(list)]
    /\ UNCHANGED <<syncVars, cacheVars, codecVars, davVars, facVars, updVars, recVars,
                   delVars, sessVars, editVars, raceVars, calVars, envVars>>

\* fetchEvents(calendarRemoteId, timeMin, timeMax): the server answers with
\* its objects in the range
FetchEvents(loginOk) ==
    /\ davPc = "idle"
    /\ davOps < MaxDavOps
    /\ davOps' = davOps + 1
    /\ LET g == GetClient(loginOk)
       IN  /\ Connect(g)
           /\ davResult' = Outcome(g, DavEventsOf(server, UuidText(nextUuid), tz))
    /\ davCall' = [name |-> "fetchEvents"]
    /\ UNCHANGED <<account, server, etagCount, davPc, davExisting, davWrite, foreign,
                   syncVars, cacheVars, codecVars, facVars, updVars, recVars, delVars, sessVars, gtVars, editVars, raceVars, calVars, envVars>>

\* syncEvents(calendarRemoteId, _syncToken)
DavSyncEvents(call, loginOk) ==
    /\ davPc = "idle"
    /\ davOps < MaxDavOps
    /\ davOps' = davOps + 1
    /\ LET g == GetClient(loginOk)
       IN  /\ Connect(g)
           /\ davResult' = Outcome(g,
                  [created |-> DavEventsOf(server, UuidText(nextUuid), tz),
                   updated |-> <<>>, deletedRemoteIds |-> <<>>,
                   newSyncToken |-> Null, newCtag |-> Null])
    /\ davCall' = call
    /\ UNCHANGED <<account, server, etagCount, davPc, davExisting, davWrite, foreign,
                   syncVars, cacheVars, codecVars, facVars, updVars, recVars, delVars, sessVars, gtVars, editVars, raceVars, calVars, envVars>>

DavSyncCalls ==
    {[name |-> "syncEvents"], [name |-> "syncEvents", syncToken |-> "s1"]}

\* CreateEventInput values handed to createEvent
DavCreateInputs ==
    {[summary |-> <<"T", "r", "i", "p">>, location |-> <<"a", ";", "b">>, startTime |-> T1, endTime |-> T2]}

\* UpdateEventInput values handed to updateEvent
DavUpdateInputs ==
    {[summary |-> <<"R", "e", "n", "a", "m", "e", "d">>],
     [startTime |-> T1, endTime |-> T2]}

\* mutant: the file name alone
ObjectUrl_FileName(calendarRemoteId, uid) == uid \o <<".", "i", "c", "s">>

\* `${calendarRemoteId}${filename}` with filename = `${uid}.ics`
ObjectUrl(calendarRemoteId, uid) == calendarRemoteId \o uid \o <<".", "i", "c", "s">>

\* createEvent(calendarRemoteId, event); stored tells whether
\* createCalendarObject resolves (the server stored the object) or rejects
CreateEvent(event, loginOk, stored) ==
    /\ davPc = "idle"
    /\ davOps < MaxDavOps
    /\ davOps' = davOps + 1
    /\ \E g \in {GetClient(loginOk)}, uid \in {UuidText(nextUuid)} :
       \E icalData \in {generateVEvent(event, uid, uid, [sec |-> now, ms |-> 0], tz)} :
       LET url  == ObjectUrl(CalendarUrl, uid)
           sent == g.tag = "client" /\ g.loggedIn
       IN  /\ Connect(g)
           /\ davResult' = IF sent /\ ~stored
                           THEN [tag |-> "thrown", cause |-> "request",
                                 message |-> "Network error"]
                           ELSE Outcome(g, parseVEvent(icalData, url, uid, tz))
           /\ nextUuid' = IF g.tag = "client" THEN nextUuid + 1 ELSE nextUuid
           /\ server' = IF sent /\ stored
                        THEN Append(server, [url |-> url, data |-> icalData,
                                             etag |-> EtagText(etagCount + 1)])
                        ELSE server
           /\ etagCount' = IF sent /\ stored THEN etagCount + 1 ELSE etagCount
    /\ davCall' = [name |-> "createEvent", event |-> event]
    /\ UNCHANGED <<account, davPc, davExisting, davWrite, foreign,
                   rows, dbTime, loadPc, batch, pos, rowsAtStart,
                   syncVars, codecVars, facVars, updVars, recVars, delVars, sessVars, gtVars, editVars, raceVars, calVars, envVars>>

\* the entity tag a PUT or DELETE is conditioned on (the If-Match header
\* the DAV client sends): headers["If-Match"], else calendarObject.etag
Precondition(req) ==
    IF Has(req.headers, "If-Match") THEN req.headers["If-Match"]
    ELSE IF Has(req, "etag") /\ req.etag # <<>> THEN req.etag
    ELSE NullStr

\* the server applies a conditional request to the object at req.url
PreconditionHolds(srv, req) ==
    \/ Precondition(req) = NullStr
    \/ \E k \in 1..Len(srv) : srv[k].url = req.url /\ srv[k].etag = Precondition(req)

NoHeaders == [h \in {} |-> NullStr]

\* mutant: the write is conditioned on the caller's entity tag only
DavRequest_NoFallback(url, call, fallback) ==
    LET headers == IF Has(call, "etag") /\ call.etag # <<>>
                   THEN [h \in {"If-Match"} |-> call.etag] ELSE NoHeaders
    IN  IF Has(call, "etag")
        THEN [url |-> url, etag |-> call.etag, headers |-> headers]
        ELSE [url |-> url, headers |-> headers]

\* the argument of deleteCalendarObject / updateCalendarObject
DavRequest(url, call, fallback) ==
    LET headers == IF Has(call, "etag") /\ call.etag # <<>>
                   THEN [h \in {"If-Match"} |-> call.etag] ELSE NoHeaders
        etag    == IF Has(call, "etag") THEN call.etag ELSE fallback
    IN  IF etag # NullStr
        THEN [url |-> url, etag |-> etag, headers |-> headers]
        ELSE [url |-> url, headers |-> headers]

\* deleteEvent(_calendarRemoteId, remoteEventId, etag)
DeleteEvent(call, loginOk) ==
    /\ davPc = "idle"
    /\ davOps < MaxDavOps
    /\ davOps' = davOps + 1
    /\ LET g    == GetClient(loginOk)
           req  == DavRequest(call.url, call, NullStr)
           sent == g.tag = "client" /\ g.loggedIn
           hit  == sent /\ PreconditionHolds(server, req)
                        /\ \E k \in 1..Len(server) : server[k].url = call.url
       IN  /\ Connect(g)
           /\ davResult' = Outcome(g, Null)
           /\ server' = IF hit THEN SelectSeq(server, LAMBDA o : o.url # call.url)
                        ELSE server
    /\ davCall' = call
    /\ UNCHANGED <<account, etagCount, davPc, davExisting, davWrite, foreign,
                   syncVars, cacheVars, codecVars, facVars, updVars, recVars, delVars, sessVars, gtVars, editVars, raceVars, calVars, envVars>>

\* the urls and entity tags callers pass: those of the pool and of created
\* objects, current or stale
DavCallUrls == {DavObjectPool[1].url, DavObjectPool[3].url}
DavCallEtags == {EtagText(1)}

DavDeleteCalls ==
    {[name |-> "deleteEvent", url |-> u] : u \in DavCallUrls}
        \cup {[name |-> "deleteEvent", url |-> u, etag |-> t] :
                  u \in DavCallUrls, t \in DavCallEtags}

DavUpdateCalls ==
    {[name |-> "updateEvent", url |-> u, event |-> e] :
         u \in DavCallUrls, e \in DavUpdateInputs}
        \cup {[name |-> "updateEvent", url |-> u, event |-> e, etag |-> t] :
                  u \in DavCallUrls, e \in DavUpdateInputs, t \in DavCallEtags}
        \cup {[name |-> "updateEvent", url |-> DavObjectPool[2].url,
                event |-> [startTime |-> T1, endTime |-> T2]]}

\* event.f ?? parsed.f, NullStr when both are nullish
Coalesce(event, parsed, f) ==
    IF Has(event, f) THEN event[f] ELSE parsed[f]

\* updateEvent: the merged CreateEventInput.  The start and end of the
\* existing event become the instants new Date(parsed.startTime * 1000)
\* and new Date(parsed.endTime * 1000).
Merged(event, parsed) ==
    LET optional == {f \in {"description", "location"} : Coalesce(event, parsed, f) # NullStr}
    IN  [f \in {"summary", "startTime", "endTime", "isAllDay"} \cup optional |->
            CASE f = "summary" ->
                     IF Coalesce(event, parsed, f) # NullStr
                     THEN Coalesce(event, parsed, f) ELSE <<>>
              [] f = "startTime" ->
                     IF Has(event, f) THEN event[f] ELSE [sec |-> parsed.startTime, ms |-> 0]
              [] f = "endTime" ->
                     IF Has(event, f) THEN event[f] ELSE [sec |-> parsed.endTime, ms |-> 0]
              [] OTHER -> Coalesce(event, parsed, f)]

\* toISOString() throws a RangeError on an invalid date
InvalidDate(event, parsed) ==
    \/ ~Has(event, "startTime") /\ IsNaN(parsed.startTime)
    \/ ~Has(event, "endTime") /\ IsNaN(parsed.endTime)

\* updateEvent after the fetch resolved with an object that has a payload:
\* parse, merge, generate and the argument of updateCalendarObject
UpdateRequest(call, existing) ==
    \E parsed \in {parseVEvent(existing.data, call.url, UuidText(nextUuid), tz)} :
        IF InvalidDate(call.event, parsed)
        THEN /\ davResult' = [tag |-> "thrown", cause |-> "range",
                              message |-> "Invalid time value"]
             /\ UNCHANGED <<davPc, davExisting, davWrite, nextUuid>>
        ELSE \E merged \in {Merged(call.event, parsed)} :
             \E data \in {generateVEvent(merged, parsed.uid, UuidText(nextUuid),
                                         [sec |-> now, ms |-> 0], tz)} :
             LET req == DavRequest(call.url, call,
                                   IF Has(existing, "etag") THEN existing.etag ELSE NullStr)
             IN  /\ davResult' = NoValue
                 /\ davPc' = "writing"
                 /\ davExisting' = existing
                 /\ davWrite' = [f \in DOMAIN req \cup {"data"} |->
                                     IF f = "data" THEN data ELSE req[f]]
                 /\ nextUuid' = IF parsed.uid = NullStr THEN nextUuid + 1 ELSE nextUuid

\* updateEvent up to the await of updateCalendarObject: getClient, the fetch
\* of the object, then UpdateRequest
UpdateFetch(call, loginOk) ==
    /\ davPc = "idle"
    /\ davOps < MaxDavOps
    /\ davOps' = davOps + 1
    /\ davCall' = call
    /\ \E g \in {GetClient(loginOk)}, objects \in {ObjectsAt(server, call.url)} :
           /\ Connect(g)
           /\ IF g.tag = "thrown" \/ ~g.loggedIn
              THEN /\ davResult' = Outcome(g, Null)
                   /\ UNCHANGED <<davPc, davExisting, davWrite, nextUuid>>
              ELSE IF objects = <<>> \/ ~HasPayload(objects[1])
              THEN /\ davResult' = [tag |-> "thrown", cause |-> "notfound",
                                    message |-> "Event not found on server"]
                   /\ UNCHANGED <<davPc, davExisting, davWrite, nextUuid>>
              ELSE UpdateRequest(call, objects[1])
    /\ UNCHANGED <<account, server, etagCount, foreign,
                   rows, dbTime, loadPc, batch, pos, rowsAtStart,
                   syncVars, codecVars, facVars, updVars, recVars, delVars, sessVars, gtVars, editVars, raceVars, calVars, envVars>>

\* the server's objects after it stored data at url under a new entity tag
Put(srv, url, data, tag) ==
    IF \E k \in 1..Len(srv) : srv[k].url = url
    THEN [k \in 1..Len(srv) |->
             IF srv[k].url = url THEN [url |-> url, data |-> data, etag |-> tag]
             ELSE srv[k]]
    ELSE Append(srv, [url |-> url, data |-> data, etag |-> tag])

\* updateEvent from the await of updateCalendarObject on.  The server
\* applies the PUT when its precondition holds; a refused PUT resolves with
\* the 412 response or rejects, as the DAV client decides (rejects).
UpdateWrite(rejects) ==
    /\ davPc = "writing"
    /\ davPc' = "idle"
    /\ LET ok == PreconditionHolds(server, davWrite)
       IN  /\ server' = IF ok THEN Put(server, davWrite.url, davWrite.data,
                                       EtagText(etagCount + 1))
                        ELSE server
           /\ etagCount' = IF ok THEN etagCount + 1 ELSE etagCount
           /\ davResult' = IF ~ok /\ rejects
                           THEN [tag |-> "thrown", cause |-> "request",
                                 message |-> "412 Precondition Failed"]
                           ELSE Returned(parseVEvent(davWrite.data, davWrite.url,
                                                     UuidText(nextUuid), tz))
    /\ UNCHANGED <<account, client, clientLoggedIn, davCall, davExisting, davWrite,
                   davUnauth, davOps, foreign, syncVars, cacheVars, codecVars, facVars, updVars, recVars, delVars, sessVars, gtVars, editVars, raceVars, calVars, envVars>>

\* what another client stores
ForeignResource ==
    Join(<< <<"B", "E", "G", "I", "N", ":", "V", "E", "V", "E", "N", "T">>, <<"U", "I", "D", ":", "m", "i", "n", "i", "m", "a", "l", "-", "1">>, <<"S", "U", "M", "M", "A", "R", "Y", ":", "T", "h", "e", "i", "r", "s">>,
            <<"D", "T", "S", "T", "A", "R", "T", ":", "2", "0", "2", "5", "0", "6", "2", "1", "T", "1", "0", "0", "0", "0", "0", "Z">>, <<"D", "T", "E", "N", "D", ":", "2", "0", "2", "5", "0", "6", "2", "1", "T", "1", "1", "0", "0", "0", "0", "Z">>, <<"E", "N", "D", ":", "V", "E", "V", "E", "N", "T">> >>, CRLF)

\* another client of the server replaces the payload of an object
ForeignWrite(url) ==
    /\ foreign < MaxForeign
    /\ \E k \in 1..Len(server) : server[k].url = url
    /\ server' = Put(server, url, ForeignResource, EtagText(etagCount + 1))
    /\ etagCount' = etagCount + 1
    /\ foreign' = foreign + 1
    /\ UNCHANGED <<account, client, clientLoggedIn, davPc, davCall, davExisting, davWrite,
                   davResult, davUnauth, davOps, syncVars, cacheVars, codecVars, facVars, updVars, recVars, delVars, sessVars, gtVars, editVars, raceVars, calVars, envVars>>

DavInit ==
    /\ account \in DavAccounts
    /\ client = Null
    /\ clientLoggedIn = FALSE
    /\ server \in InitialServers
    /\ etagCount = Len(server)
    /\ davPc = "idle"
    /\ davCall = NoValue
    /\ davExisting = NoValue
    /\ davWrite = NoValue
    /\ davResult = NoValue
    /\ davUnauth = FALSE
    /\ davOps = 0
    /\ foreign = 0

\* login() is only reached when no client is cached and the account is
\* configured; it resolves or rejects
LoginOutcomes ==
    IF client = Null /\ GetClient(TRUE).tag = "client" THEN BOOLEAN ELSE {TRUE}

ListCalendarsAny == \E ok \in LoginOutcomes : ListCalendars(ok)
TestConnectionAny == \E ok \in LoginOutcomes, list \in ListOutcomes : TestConnection(ok, list)
FetchEventsAny == \E ok \in LoginOutcomes : FetchEvents(ok)
DavSyncEventsAny == \E c \in DavSyncCalls, ok \in LoginOutcomes : DavSyncEvents(c, ok)
CreateEventAny ==
    \E e \in DavCreateInputs, ok \in LoginOutcomes, stored \in BOOLEAN : CreateEvent(e, ok, stored)
DeleteEventAny == \E c \in DavDeleteCalls, ok \in LoginOutcomes : DeleteEvent(c, ok)
UpdateFetchAny == \E c \in DavUpdateCalls, ok \in LoginOutcomes : UpdateFetch(c, ok)
UpdateWriteAny == \E rejects \in BOOLEAN : UpdateWrite(rejects)
ForeignWriteAny == \E u \in DavUrls : ForeignWrite(u)

DavNext ==
    \/ ListCalendarsAny \/ TestConnectionAny \/ FetchEventsAny \/ DavSyncEventsAny
    \/ CreateEventAny \/ DeleteEventAny \/ UpdateFetchAny \/ UpdateWriteAny
    \/ ForeignWriteAny

DavSpecInit ==
    SyncInit /\ CacheInit /\ CodecIdle /\ DavInit /\ FacIdle /\ Others /\ now = 1750428000 /\ tz = -18000

DavSpec == DavSpecInit /\ [][DavNext]_vars

GoogleTestConnectionAny == \E list \in ListOutcomes : GoogleTestConnection(list)

\* testConnection of both providers, and listCalendars as the next attempt
ConnectionNext == TestConnectionAny \/ GoogleTestConnectionAny \/ ListCalendarsAny

ConnectionSpecInit ==
    SyncInit /\ CacheInit /\ CodecIdle /\ DavInit /\ FacIdle /\ Others /\ now = 0 /\ tz = 0

ConnectionSpec == ConnectionSpecInit /\ [][ConnectionNext]_vars

-----------------------------------------------------------------------------
(* providerFactory *)

\* accounts rows as getCalendarProvider reads them
AccountRows ==
    [provider : {"gmail_api", "imap", "caldav"},
     calendar_provider : {Null, "google_api", "caldav"},
     caldav_url : {Null, "", "https://dav.example"}]

\* mutant: the Gmail branch is tried before the CalDAV branches
SelectProvider_GoogleFirst(row) ==
    IF row.provider = "gmail_api" \/ row.calendar_provider = "google_api"
    THEN "google_api"
    ELSE IF row.provider = "caldav" THEN "caldav"
    ELSE IF row.calendar_provider = "caldav" /\ TruthyValue(row.caldav_url) THEN "caldav"
    ELSE Null

\* the if / else-if chain of getCalendarProvider: the type of the provider
\* constructed, Null when the chain ends in the throw
SelectProvider(row) ==
    IF row.provider = "caldav" THEN "caldav"
    ELSE IF row.calendar_provider = "caldav" /\ TruthyValue(row.caldav_url) THEN "caldav"
    ELSE IF row.provider = "gmail_api" \/ row.calendar_provider = "google_api"
    THEN "google_api"
    ELSE IF row.provider = "gmail_api" THEN "google_api"
    ELSE Null

\* new CalDAVProvider(accountId) / new GoogleCalendarProvider(accountId):
\* id tells the objects apart
Instance(type, a, id) == [type |-> type, accountId |-> a, id |-> id]

\* mutant: deleting one key empties the map
MapDelete_All(map, a) == [b \in DOMAIN map |-> NoValue]

\* providerCache.delete(accountId)
MapDelete(map, a) == [map EXCEPT ![a] = NoValue]

\* getCalendarProvider(accountId)
GetCalendarProvider(a) ==
    /\ facOps < MaxFactoryOps
    /\ facOps' = facOps + 1
    /\ facCall' = [name |-> "getCalendarProvider", accountId |-> a]
    /\ IF providerCache[a] # NoValue
       THEN /\ facResult' = Returned(providerCache[a])
            /\ facValid' = [facValid EXCEPT ![a] = providerCache[a]]
            /\ UNCHANGED <<providerCache, accountReads, nextInstance, facThrown>>
       ELSE /\ accountReads' = [accountReads EXCEPT ![a] = @ + 1]
            /\ IF accounts[a] = NoValue
               THEN /\ facResult' = [tag |-> "thrown",
                                     message |-> <<"Account ", a, " not found">>]
                    /\ facThrown' = facThrown \cup {a}
                    /\ UNCHANGED <<providerCache, nextInstance, facValid>>
               ELSE IF SelectProvider(accounts[a]) = Null
               THEN /\ facResult' = [tag |-> "thrown",
                                     message |-> <<"No calendar provider configured for account ", a>>]
                    /\ facThrown' = facThrown \cup {a}
                    /\ UNCHANGED <<providerCache, nextInstance, facValid>>
               ELSE LET provider == Instance(SelectProvider(accounts[a]), a, nextInstance)
                    IN  /\ providerCache' = [providerCache EXCEPT ![a] = provider]
                        /\ nextInstance' = nextInstance + 1
                        /\ facResult' = Returned(provider)
                        /\ facValid' = [facValid EXCEPT ![a] = provider]
                        /\ UNCHANGED facThrown
    /\ UNCHANGED <<accounts, facSupport, syncVars, cacheVars, codecVars, davVars, updVars, recVars, delVars, sessVars, gtVars, editVars, raceVars, calVars, envVars>>

\* the three tests of hasCalendarSupport on the account row read
SupportsCalendar(row) ==
    \/ row.provider = "caldav"
    \/ row.provider = "gmail_api"
    \/ row.calendar_provider = "caldav" /\ TruthyValue(row.caldav_url)

\* hasCalendarSupport(accountId)
HasCalendarSupport(a) ==
    /\ facOps < MaxFactoryOps
    /\ facOps' = facOps + 1
    /\ facCall' = [name |-> "hasCalendarSupport", accountId |-> a]
    /\ accountReads' = [accountReads EXCEPT ![a] = @ + 1]
    /\ facSupport' = IF accounts[a] = NoValue THEN FALSE ELSE SupportsCalendar(accounts[a])
    /\ facResult' = NoValue
    /\ UNCHANGED <<providerCache, accounts, nextInstance, facValid, facThrown,
                   syncVars, cacheVars, codecVars, davVars, updVars, recVars, delVars,
                   sessVars, gtVars, editVars, raceVars, calVars, envVars>>

\* removeCalendarProvider(accountId)
RemoveCalendarProvider(a) ==
    /\ facOps < MaxFactoryOps
    /\ facOps' = facOps + 1
    /\ facCall' = [name |-> "removeCalendarProvider", accountId |-> a]
    /\ providerCache' = MapDelete(providerCache, a)
    /\ facResult' = NoValue
    /\ facValid' = [facValid EXCEPT ![a] = NoValue]
    /\ UNCHANGED <<accounts, accountReads, nextInstance, facThrown, facSupport,
                   syncVars, cacheVars, codecVars, davVars, updVars, recVars, delVars, sessVars, gtVars, editVars, raceVars, calVars, envVars>>

\* clearAllCalendarProviders()
ClearAllCalendarProviders ==
    /\ facOps < MaxFactoryOps
    /\ facOps' = facOps + 1
    /\ facCall' = [name |-> "clearAllCalendarProviders"]
    /\ providerCache' = [a \in AccountIds |-> NoValue]
    /\ facResult' = NoValue
    /\ facValid' = [a \in AccountIds |-> NoValue]
    /\ UNCHANGED <<accounts, accountReads, nextInstance, facThrown, facSupport,
                   syncVars, cacheVars, codecVars, davVars, updVars, recVars, delVars, sessVars, gtVars, editVars, raceVars, calVars, envVars>>

\* the rows an account is given when its configuration is changed
FixedRows ==
    {[provider |-> "imap", calendar_provider |-> "caldav", caldav_url |-> "https://dav.example"],
     [provider |-> "gmail_api", calendar_provider |-> Null, caldav_url |-> Null]}

\* the user changes the configuration of an account between two calls
SetAccount(a, row) ==
    /\ facOps < MaxFactoryOps
    /\ facOps' = facOps + 1
    /\ accounts[a] # row
    /\ accounts' = [accounts EXCEPT ![a] = row]
    /\ facCall' = [name |-> "configure", accountId |-> a]
    /\ facResult' = NoValue
    /\ UNCHANGED <<providerCache, accountReads, nextInstance,
                   facValid, facThrown, facSupport, syncVars, cacheVars, codecVars, davVars, updVars, recVars, delVars, sessVars, gtVars, editVars, raceVars, calVars, envVars>>

\* the accounts tables explored: any row for a1, a few for a2
FactoryInit ==
    /\ providerCache = [a \in AccountIds |-> NoValue]
    /\ accounts \in {t \in [AccountIds -> AccountRows \cup {NoValue}] :
                        t["a2"] \in FixedRows \cup {NoValue}}
    /\ accountReads = [a \in AccountIds |-> 0]
    /\ nextInstance = 1
    /\ facCall = NoValue
    /\ facResult = NoValue
    /\ facOps = 0
    /\ facValid = [a \in AccountIds |-> NoValue]
    /\ facThrown = {}
    /\ facSupport = NoValue

GetCalendarProviderAny == \E a \in AccountIds : GetCalendarProvider(a)
HasCalendarSupportAny == \E a \in AccountIds : HasCalendarSupport(a)
RemoveCalendarProviderAny == \E a \in AccountIds : RemoveCalendarProvider(a)
SetAccountAny == \E a \in AccountIds, row \in FixedRows : SetAccount(a, row)

FactoryNext ==
    \/ GetCalendarProviderAny \/ RemoveCalendarProviderAny
    \/ ClearAllCalendarProviders \/ SetAccountAny \/ HasCalendarSupportAny

FactorySpecInit ==
    SyncInit /\ CacheInit /\ CodecIdle /\ DavIdle /\ FactoryInit /\ Others /\ now = 0 /\ tz = 0

FactorySpec == FactorySpecInit /\ [][FactoryNext]_vars

-----------------------------------------------------------------------------
(* providerFactory: getCalendarProvider step by step, for one account *)

RaceAccount == "a1"

\* getCalendarProvider up to its await: the cache is looked up; on a hit
\* the cached provider is returned, on a miss getAccount is called
RaceEnter(c) ==
    /\ rcPc[c] = "idle"
    /\ IF providerCache[RaceAccount] # NoValue
       THEN /\ rcGot' = [rcGot EXCEPT ![c] = Returned(providerCache[RaceAccount])]
            /\ rcPc' = [rcPc EXCEPT ![c] = "done"]
       ELSE /\ rcPc' = [rcPc EXCEPT ![c] = "awaiting"]
            /\ UNCHANGED rcGot
    /\ UNCHANGED <<rcRead, rcVersion, rcSavePc, rcCacheVersion, rcInvalidated, facVars,
                   syncVars, cacheVars, codecVars, davVars, updVars, recVars, delVars,
                   sessVars, gtVars, editVars, calVars, envVars>>

\* the database answers getAccount with the row as it is now
RaceAccountRead(c) ==
    /\ rcPc[c] = "awaiting"
    /\ rcRead' = [rcRead EXCEPT ![c] = [row |-> accounts[RaceAccount], version |-> rcVersion]]
    /\ rcPc' = [rcPc EXCEPT ![c] = "resolved"]
    /\ accountReads' = [accountReads EXCEPT ![RaceAccount] = @ + 1]
    /\ UNCHANGED <<rcGot, rcVersion, rcSavePc, rcCacheVersion, rcInvalidated,
                   providerCache, accounts, nextInstance, facCall, facResult, facOps,
                   facValid, facThrown, facSupport,
                   syncVars, cacheVars, codecVars, davVars, updVars, recVars, delVars,
                   sessVars, gtVars, editVars, calVars, envVars>>

\* getCalendarProvider after its await: the provider is chosen from the
\* row read, constructed, put into the cache and returned, or the call throws
RaceResume(c) ==
    /\ rcPc[c] = "resolved"
    /\ rcPc' = [rcPc EXCEPT ![c] = "done"]
    /\ IF rcRead[c].row = NoValue
       THEN /\ rcGot' = [rcGot EXCEPT ![c] =
                            [tag |-> "thrown",
                             message |-> <<"Account ", RaceAccount, " not found">>]]
            /\ UNCHANGED <<providerCache, nextInstance, rcCacheVersion>>
       ELSE IF SelectProvider(rcRead[c].row) = Null
       THEN /\ rcGot' = [rcGot EXCEPT ![c] =
                            [tag |-> "thrown",
                             message |-> <<"No calendar provider configured for account ",
                                           RaceAccount>>]]
            /\ UNCHANGED <<providerCache, nextInstance, rcCacheVersion>>
       ELSE LET provider == Instance(SelectProvider(rcRead[c].row), RaceAccount, nextInstance)
            IN  /\ providerCache' = [providerCache EXCEPT ![RaceAccount] = provider]
                /\ nextInstance' = nextInstance + 1
                /\ rcGot' = [rcGot EXCEPT ![c] = Returned(provider)]
                /\ rcCacheVersion' = rcRead[c].version
    /\ UNCHANGED <<rcRead, rcVersion, rcSavePc, rcInvalidated,
                   accounts, accountReads, facCall, facResult, facOps, facValid, facThrown,
                   facSupport,
                   syncVars, cacheVars, codecVars, davVars, updVars, recVars, delVars,
                   sessVars, gtVars, editVars, calVars, envVars>>

\* the rows handleSave and handleRemove of the CalDAV settings write
SettingsRows ==
    {[provider |-> "imap", calendar_provider |-> "caldav", caldav_url |-> "https://dav.example"],
     [provider |-> "imap", calendar_provider |-> "", caldav_url |-> ""]}

\* handleSave / handleRemove up to the await: updateAccountCalDav writes
\* the new configuration of the account
SettingsWrite(row) ==
    /\ rcSavePc = "idle"
    /\ rcVersion < MaxSettingsChanges
    /\ accounts[RaceAccount] # row
    /\ accounts' = [accounts EXCEPT ![RaceAccount] = row]
    /\ rcVersion' = rcVersion + 1
    /\ rcSavePc' = "written"
    /\ UNCHANGED <<rcPc, rcRead, rcGot, rcCacheVersion, rcInvalidated,
                   providerCache, accountReads, nextInstance, facCall, facResult, facOps,
                   facValid, facThrown, facSupport,
                   syncVars, cacheVars, codecVars, davVars, updVars, recVars, delVars,
                   sessVars, gtVars, editVars, calVars, envVars>>

\* handleSave / handleRemove after the await: removeCalendarProvider(account.id)
SettingsInvalidate ==
    /\ rcSavePc = "written"
    /\ providerCache' = MapDelete(providerCache, RaceAccount)
    /\ rcInvalidated' = rcVersion
    /\ rcCacheVersion' = -1
    /\ rcSavePc' = "idle"
    /\ UNCHANGED <<rcPc, rcRead, rcGot, rcVersion,
                   accounts, accountReads, nextInstance, facCall, facResult, facOps,
                   facValid, facThrown, facSupport,
                   syncVars, cacheVars, codecVars, davVars, updVars, recVars, delVars,
                   sessVars, gtVars, editVars, calVars, envVars>>

RaceEnterAny == \E c \in RaceCallers : RaceEnter(c)
RaceAccountReadAny == \E c \in RaceCallers : RaceAccountRead(c)
RaceResumeAny == \E c \in RaceCallers : RaceResume(c)
SettingsWriteAny == \E row \in SettingsRows : SettingsWrite(row)

FactoryRaceNext ==
    \/ RaceEnterAny \/ RaceAccountReadAny \/ RaceResumeAny
    \/ SettingsWriteAny \/ SettingsInvalidate

\* the account starts with one of the rows explored for it; nothing is cached
FactoryRaceSpecInit ==
    /\ SyncInit /\ CacheInit /\ CodecIdle /\ DavIdle /\ Others /\ now = 0 /\ tz = 0
    /\ providerCache = [a \in AccountIds |-> NoValue]
    /\ accounts \in {t \in [AccountIds -> AccountRows \cup {NoValue}] :
                        t["a2"] = NoValue /\ t["a1"] \in FixedRows \cup {NoValue}}
    /\ accountReads = [a \in AccountIds |-> 0]
    /\ nextInstance = 1
    /\ facCall = NoValue
    /\ facResult = NoValue
    /\ facOps = 0
    /\ facValid = [a \in AccountIds |-> NoValue]
    /\ facThrown = {}
    /\ facSupport = NoValue

FactoryRaceSpec == FactoryRaceSpecInit /\ [][FactoryRaceNext]_vars

-----------------------------------------------------------------------------
(* Calendar discovery: CalDAVProvider.listCalendars and upsertCalendar *)

\* the calendars a server may hold: one with a display name, one without
\* a display name and with a colour
DavCalendars ==
    {[url |-> "/cal/a/", displayName |-> "Personal"],
     [url |-> "/cal/b/", calendarColor |-> "#ff0000"]}

\* the collections fetchCalendars may return: the calendars in any order,
\* each at most once
Collections ==
    {col \in SeqsUpTo(DavCalendars, 2) :
         \A i, j \in 1..Len(col) : i # j => col[i] # col[j]}

\* `Calendar ${index + 1}`
OrdinalNames == <<"Calendar 1", "Calendar 2", "Calendar 3">>

\* listCalendars: calendars.map((cal, index) => ...)
MapCalendars(col) ==
    [k \in 1..Len(col) |->
        [remoteId    |-> col[k].url,
         displayName |-> IF Has(col[k], "displayName") THEN col[k].displayName
                         ELSE OrdinalNames[k],
         color       |-> IF Has(col[k], "calendarColor") THEN col[k].calendarColor ELSE Null,
         isPrimary   |-> k = 1]]

\* ON CONFLICT(account_id, remote_id)
CalendarConflicts(r, calendar) ==
    r.account_id = calendar.accountId /\ r.remote_id = calendar.remoteId

\* the row the INSERT of upsertCalendar adds; is_visible, sync_token and
\* ctag take the defaults of the table
InsertedCalendar(id, calendar, t) ==
    [id |-> id, account_id |-> calendar.accountId, provider |-> calendar.provider,
     remote_id |-> calendar.remoteId, display_name |-> calendar.displayName,
     color |-> calendar.color, is_primary |-> IF calendar.isPrimary THEN 1 ELSE 0,
     is_visible |-> 1, sync_token |-> Null, ctag |-> Null, updated_at |-> t]

\* mutant: the conflicting row is replaced by the row of the INSERT
UpdatedCalendar_Replaced(r, calendar, id, t) == InsertedCalendar(id, calendar, t)

\* DO UPDATE SET display_name = $5, color = $6, is_primary = $7,
\* updated_at = unixepoch()
UpdatedCalendar(r, calendar, id, t) ==
    [r EXCEPT !.display_name = calendar.displayName, !.color = calendar.color,
              !.is_primary = IF calendar.isPrimary THEN 1 ELSE 0, !.updated_at = t]

\* upsertCalendar: the table after the statement, id being the
\* crypto.randomUUID() of the call and t the database time
upsertCalendar(table, calendar, id, t) ==
    IF \E r \in table : CalendarConflicts(r, calendar)
    THEN {IF CalendarConflicts(r, calendar) THEN UpdatedCalendar(r, calendar, id, t) ELSE r :
              r \in table}
    ELSE table \cup {InsertedCalendar(id, calendar, t)}

\* upsertCalendar: return existing?.id ?? id, read from the table after
\* the statement
upsertCalendarReturns(table, calendar, id) ==
    IF \E r \in table : CalendarConflicts(r, calendar)
    THEN (CHOOSE r \in table : CalendarConflicts(r, calendar)).id
    ELSE id

\* the arguments loadEvents passes to upsertCalendar for a CalendarInfo
UpsertCalendarArg(cal) ==
    [accountId |-> AccountId, provider |-> "caldav", remoteId |-> cal.remoteId,
     displayName |-> cal.displayName, color |-> cal.color, isPrimary |-> cal.isPrimary]

\* a calendar is added to or removed from the server, or its collection
\* comes back in another order
CollectionChanges(col) ==
    /\ calPc = "idle"
    /\ col # calServer
    /\ calServer' = col
    /\ UNCHANGED <<calTable, calPc, calPending, calNextId, calRuns, calLast,
                   syncVars, cacheVars, codecVars, davVars, facVars, updVars, recVars,
                   delVars, sessVars, gtVars, editVars, raceVars, envVars>>

\* loadEvents: const providerCalendars = await provider.listCalendars()
DiscoverStart ==
    /\ calPc = "idle"
    /\ calRuns < MaxDiscoveries
    /\ calPending' = MapCalendars(calServer)
    /\ calPc' = "upserting"
    /\ UNCHANGED <<calServer, calTable, calNextId, calRuns, calLast,
                   syncVars, cacheVars, codecVars, davVars, facVars, updVars, recVars,
                   delVars, sessVars, gtVars, editVars, raceVars, envVars>>

\* loadEvents: await upsertCalendar({...}) for the next calendar of the list
DiscoverUpsert ==
    /\ calPc = "upserting"
    /\ calPending # <<>>
    /\ \E after \in {upsertCalendar(calTable, UpsertCalendarArg(Head(calPending)),
                                     calNextId, dbTime)} :
          /\ calTable' = after
          /\ calLast' = [calendar |-> UpsertCalendarArg(Head(calPending)),
                         before |-> calTable, generated |-> calNextId,
                         returned |-> upsertCalendarReturns(after,
                                          UpsertCalendarArg(Head(calPending)), calNextId)]
    /\ calNextId' = calNextId + 1
    /\ calPending' = Tail(calPending)
    /\ UNCHANGED <<calServer, calPc, calRuns,
                   syncVars, cacheVars, codecVars, davVars, facVars, updVars, recVars,
                   delVars, sessVars, gtVars, editVars, raceVars, envVars>>

\* loadEvents: the loop over providerCalendars has ended
DiscoverDone ==
    /\ calPc = "upserting"
    /\ calPending = <<>>
    /\ calPc' = "idle"
    /\ calRuns' = calRuns + 1
    /\ UNCHANGED <<calServer, calTable, calPending, calNextId, calLast,
                   syncVars, cacheVars, codecVars, davVars, facVars, updVars, recVars,
                   delVars, sessVars, gtVars, editVars, raceVars, envVars>>

\* setCalendarVisibility(calendarId, visible)
SetCalendarVisibility(calendarId, visible) ==
    /\ calPc = "idle"
    /\ \E r \in calTable : r.id = calendarId
    /\ calTable' = {IF r.id = calendarId
                     THEN [r EXCEPT !.is_visible = IF visible THEN 1 ELSE 0,
                                    !.updated_at = dbTime]
                     ELSE r : r \in calTable}
    /\ UNCHANGED <<calServer, calPc, calPending, calNextId, calRuns, calLast,
                   syncVars, cacheVars, codecVars, davVars, facVars, updVars, recVars,
                   delVars, sessVars, gtVars, editVars, raceVars, envVars>>

\* updateCalendarSyncToken(calendarId, syncToken, ctag) on the rows of the table
StoreSyncToken(calendarId, token, ctag) ==
    /\ calPc = "idle"
    /\ \E r \in calTable : r.id = calendarId
    /\ calTable' = {IF r.id = calendarId
                     THEN [r EXCEPT !.sync_token = token, !.ctag = ctag,
                                    !.updated_at = dbTime]
                     ELSE r : r \in calTable}
    /\ UNCHANGED <<calServer, calPc, calPending, calNextId, calRuns, calLast,
                   syncVars, cacheVars, codecVars, davVars, facVars, updVars, recVars,
                   delVars, sessVars, gtVars, editVars, raceVars, envVars>>

\* time passes in the database while no statement runs
CalendarDbTick ==
    /\ calPc = "idle"
    /\ DbTick

CollectionChangesAny == \E col \in Collections : CollectionChanges(col)

SetCalendarVisibilityAny ==
    \E r \in calTable, visible \in BOOLEAN : SetCalendarVisibility(r.id, visible)

StoreSyncTokenAny == \E r \in calTable : StoreSyncToken(r.id, "s1", "ct1")

DiscoveryNext ==
    \/ CollectionChangesAny \/ DiscoverStart \/ DiscoverUpsert \/ DiscoverDone
    \/ SetCalendarVisibilityAny \/ StoreSyncTokenAny \/ CalendarDbTick

DiscoverySpec == CacheSpecInit /\ [][DiscoveryNext]_vars

-----------------------------------------------------------------------------
(* GoogleCalendarProvider.updateEvent *)

\* r with field f set to v
WithField(r, f, v) == [g \in DOMAIN r \cup {f} |-> IF g = f THEN v ELSE r[g]]

\* the records of S, each also extended by field f with a value of vals
Optional(S, f, vals) == S \cup {WithField(r, f, v) : r \in S, v \in vals}

\* UpdateEventInput values: every subset of the fields.  startTime and
\* endTime are ISO strings as toISOString() writes them, kept as the
\* instants they denote.
GoogleUpdateInputs ==
    Optional(Optional(Optional(Optional(Optional(Optional({[g \in {} |-> Null]},
        "summary", {"", "Renamed"}),
        "description", {""}),
        "location", {"Room 2"}),
        "startTime", {T1}),
        "endTime", {T2}),
        "isAllDay", BOOLEAN)

\* isoString.split("T")[0] of a toISOString() value: the UTC date, as days
\* since the epoch
IsoDate(instant) == instant.sec \div 86400

\* updateEvent: the body of the PATCH request
PatchBody(event, zone) ==
    LET allDay == Has(event, "isAllDay") /\ event.isAllDay
        texts  == {f \in {"summary", "description", "location"} : Has(event, f)}
        times  == IF Has(event, "startTime") /\ Has(event, "endTime")
                  THEN {"start", "end"} ELSE {}
    IN  [f \in texts \cup times |->
            CASE f = "start" -> IF allDay THEN [date |-> IsoDate(event.startTime)]
                                ELSE [dateTime |-> event.startTime, timeZone |-> zone]
              [] f = "end" -> IF allDay THEN [date |-> IsoDate(event.endTime)]
                              ELSE [dateTime |-> event.endTime, timeZone |-> zone]
              [] OTHER -> event[f]]

\* the events the backend answers a PATCH with
PatchedItems == {item \in Items : Has(item, "start")}

\* updateEvent(calendarRemoteId, remoteEventId, event): the request resolves
GoogleUpdateEvent(event, resp) ==
    /\ updCall' = event
    /\ updBody' = PatchBody(event, tz)
    /\ updResult' = Returned(mapGoogleEvent(resp, tz))
    /\ UNCHANGED <<syncVars, cacheVars, codecVars, davVars, facVars, recVars, delVars, sessVars, gtVars, editVars, raceVars, calVars, envVars>>

\* updateEvent: the request rejects
GoogleUpdateEventFails(event, err) ==
    /\ updCall' = event
    /\ updBody' = PatchBody(event, tz)
    /\ updResult' = [tag |-> "thrown", error |-> err]
    /\ UNCHANGED <<syncVars, cacheVars, codecVars, davVars, facVars, recVars, delVars, sessVars, gtVars, editVars, raceVars, calVars, envVars>>

GoogleUpdateEventAny ==
    \E event \in GoogleUpdateInputs, resp \in PatchedItems : GoogleUpdateEvent(event, resp)
GoogleUpdateEventFailsAny ==
    \E event \in GoogleUpdateInputs :
        GoogleUpdateEventFails(event, [isError |-> TRUE, message |-> <<"N", "e", "t", "w", "o", "r", "k">>])

GoogleUpdateNext == GoogleUpdateEventAny \/ GoogleUpdateEventFailsAny

GoogleUpdateSpecInit ==
    SyncInit /\ CacheInit /\ CodecIdle /\ DavIdle /\ FacIdle /\ Others /\ EnvInit

GoogleUpdateSpec == GoogleUpdateSpecInit /\ [][GoogleUpdateNext]_vars

-----------------------------------------------------------------------------
(* Reconciling a CalendarSyncResult into the cache *)

RecRemoteIds == {"e1", "e2"}

\* a change of the backend: an event was written or removed
RemoteChanges == [kind : {"upsert", "delete"}, remoteId : RecRemoteIds]

\* the position in the log a persisted sync token stands for
TokenPos(token) == IF token = NoValue THEN 0 ELSE token.pos

\* the last change to remote id e among the first n changes of log, 0 if none
LastChange(log, e, n) ==
    LET at == {i \in 1..n : log[i].remoteId = e}
    IN  IF at = {} THEN 0 ELSE CHOOSE i \in at : \A j \in at : j <= i

\* whether event e exists after the first n changes of log
Exists(log, e, n) == LastChange(log, e, n) # 0 /\ log[LastChange(log, e, n)].kind = "upsert"

\* syncEvents(calendarRemoteId, syncToken) of the token-based provider over
\* the log: the latest state of every event changed after the token, live
\* ones in created, removed ones in deletedRemoteIds, and the token of the
\* end of the log
RemoteDelta(log, from) ==
    LET changed == {e \in RecRemoteIds : LastChange(log, e, Len(log)) > from}
    IN  [created |-> {e \in changed : Exists(log, e, Len(log))},
         updated |-> {},
         deletedRemoteIds |-> {e \in changed : ~Exists(log, e, Len(log))},
         newSyncToken |-> [pos |-> Len(log)],
         newCtag |-> NoValue]

\* mutant: the UPDATE has no WHERE clause
updateCalendarSyncToken_AllRows(table, calendarId, token, ctag, t) ==
    [c \in DOMAIN table |-> [sync_token |-> token, ctag |-> ctag, updated_at |-> t]]

\* updateCalendarSyncToken(calendarId, syncToken, ctag): the table after
\* UPDATE calendars SET sync_token, ctag, updated_at WHERE id = calendarId
updateCalendarSyncToken(table, calendarId, token, ctag, t) ==
    [c \in DOMAIN table |->
        IF c = calendarId
        THEN [sync_token |-> token, ctag |-> ctag, updated_at |-> t]
        ELSE table[c]]

\* the items of a sync result: upserts and removals
ResultItems(result) ==
    {[kind |-> "upsert", remoteId |-> e] : e \in result.created \cup result.updated}
        \cup {[kind |-> "delete", remoteId |-> e] : e \in result.deletedRemoteIds}

\* the backend sees a change of calendar c
RemoteChange(c, change) ==
    /\ Len(remoteLog["c1"]) + Len(remoteLog["c2"]) < MaxRemoteChanges
    /\ remoteLog' = [remoteLog EXCEPT ![c] = Append(@, change)]
    /\ UNCHANGED <<calendarRows, recCache, recPc, recCalendar, recResult, recDone,
                   recCrashed, syncVars, cacheVars, codecVars, davVars, facVars, updVars, delVars, sessVars, gtVars, editVars, raceVars, calVars,
                   envVars>>

\* a reconciliation of calendar c starts: syncEvents is called with the
\* persisted sync token
RecSync(c) ==
    /\ recPc = "idle"
    /\ recPc' = "applying"
    /\ recCalendar' = c
    /\ recResult' = RemoteDelta(remoteLog[c], TokenPos(calendarRows[c].sync_token))
    /\ recDone' = {}
    /\ UNCHANGED <<remoteLog, calendarRows, recCache, recCrashed,
                   syncVars, cacheVars, codecVars, davVars, facVars, updVars, delVars, sessVars, gtVars, editVars, raceVars, calVars, envVars>>

\* one item of the result is applied: upsertEvent(calendarId, event) or
\* deleteEventByRemoteId(calendarId, remoteId), once per item
RecApply(item) ==
    /\ recPc = "applying"
    /\ item \in ResultItems(recResult) \ recDone
    /\ recCache' = IF item.kind = "upsert"
                   THEN recCache \cup {<<recCalendar, item.remoteId>>}
                   ELSE recCache \ {<<recCalendar, item.remoteId>>}
    /\ recDone' = recDone \cup {item}
    /\ UNCHANGED <<remoteLog, calendarRows, recPc, recCalendar, recResult, recCrashed,
                   syncVars, cacheVars, codecVars, davVars, facVars, updVars, delVars, sessVars, gtVars, editVars, raceVars, calVars, envVars>>

\* every item has been applied: newSyncToken / newCtag are persisted
RecPersist ==
    /\ recPc = "applying"
    /\ recDone = ResultItems(recResult)
    /\ calendarRows' = updateCalendarSyncToken(calendarRows, recCalendar,
                           recResult.newSyncToken, recResult.newCtag, dbTime)
    /\ recPc' = "idle"
    /\ recResult' = NoValue
    /\ recDone' = {}
    /\ UNCHANGED <<remoteLog, recCache, recCalendar, recCrashed,
                   syncVars, cacheVars, codecVars, davVars, facVars, updVars, delVars, sessVars, gtVars, editVars, raceVars, calVars, envVars>>

\* the process dies during a reconciliation: what was in memory is gone,
\* what was written to the database stays
RecCrash ==
    /\ recPc = "applying"
    /\ recPc' = "idle"
    /\ recResult' = NoValue
    /\ recDone' = {}
    /\ recCrashed' = (recCrashed \/ recDone # {})
    /\ UNCHANGED <<remoteLog, calendarRows, recCache, recCalendar,
                   syncVars, cacheVars, codecVars, davVars, facVars, updVars, delVars, sessVars, gtVars, editVars, raceVars, calVars, envVars>>

RemoteChangeAny == \E c \in RecCalendars, change \in RemoteChanges : RemoteChange(c, change)
RecSyncAny == \E c \in RecCalendars : RecSync(c)
RecApplyAny == \E item \in [kind : {"upsert", "delete"}, remoteId : RecRemoteIds] : RecApply(item)

ReconcileNext == RemoteChangeAny \/ RecSyncAny \/ RecApplyAny \/ RecPersist \/ RecCrash

ReconcileSpecInit ==
    SyncInit /\ CacheInit /\ CodecIdle /\ DavIdle /\ FacIdle /\ Others
        /\ now = 0 /\ tz = 0

ReconcileSpec == ReconcileSpecInit /\ [][ReconcileNext]_vars

-----------------------------------------------------------------------------
(* CalDAVProvider.getClient under concurrent operations *)

ClientName(n) == "DAVClient" \o ToString(n)

\* an operation calls getClient: with a client cached it gets that client at
\* once, otherwise it awaits getAccount
GetClientEnter(o) ==
    /\ sessPc[o] = "idle"
    /\ IF sessClient # Null
       THEN /\ sessLocal' = [sessLocal EXCEPT ![o] = sessClient]
            /\ sessPc' = [sessPc EXCEPT ![o] = "request"]
       ELSE /\ sessPc' = [sessPc EXCEPT ![o] = "getAccount"]
            /\ UNCHANGED sessLocal
    /\ UNCHANGED <<sessClient, sessNextClient, sessLoggedIn, sessLogins, sessEarlyUse,
                   syncVars, cacheVars, codecVars, davVars, facVars, updVars, recVars,
                   delVars, gtVars, editVars, raceVars, calVars, envVars>>

\* getAccount has resolved with a configured account: a DAVClient is
\* constructed and assigned to this.client, login() is called and awaited
GetClientLogin(o) ==
    /\ sessPc[o] = "getAccount"
    /\ sessClient' = ClientName(sessNextClient)
    /\ sessNextClient' = sessNextClient + 1
    /\ sessLocal' = [sessLocal EXCEPT ![o] = ClientName(sessNextClient)]
    /\ sessLogins' = sessLogins + 1
    /\ sessPc' = [sessPc EXCEPT ![o] = "login"]
    /\ UNCHANGED <<sessLoggedIn, sessEarlyUse,
                   syncVars, cacheVars, codecVars, davVars, facVars, updVars, recVars,
                   delVars, gtVars, editVars, raceVars, calVars, envVars>>

\* login() of the operation's client resolves; getClient returns this.client
GetClientReturn(o) ==
    /\ sessPc[o] = "login"
    /\ sessLoggedIn' = sessLoggedIn \cup {sessLocal[o]}
    /\ sessLocal' = [sessLocal EXCEPT ![o] = sessClient]
    /\ sessPc' = [sessPc EXCEPT ![o] = "request"]
    /\ UNCHANGED <<sessClient, sessNextClient, sessLogins, sessEarlyUse,
                   syncVars, cacheVars, codecVars, davVars, facVars, updVars, recVars,
                   delVars, gtVars, editVars, raceVars, calVars, envVars>>

\* the operation sends its request over the client getClient gave it
SendRequest(o) ==
    /\ sessPc[o] = "request"
    /\ sessEarlyUse' = IF sessLocal[o] \in sessLoggedIn THEN sessEarlyUse
                       ELSE sessEarlyUse \cup {o}
    /\ sessPc' = [sessPc EXCEPT ![o] = "done"]
    /\ UNCHANGED <<sessClient, sessNextClient, sessLocal, sessLoggedIn, sessLogins,
                   syncVars, cacheVars, codecVars, davVars, facVars, updVars, recVars,
                   delVars, gtVars, editVars, raceVars, calVars, envVars>>

GetClientEnterAny == \E o \in SessOps : GetClientEnter(o)
GetClientLoginAny == \E o \in SessOps : GetClientLogin(o)
GetClientReturnAny == \E o \in SessOps : GetClientReturn(o)
SendRequestAny == \E o \in SessOps : SendRequest(o)

SessionNext == GetClientEnterAny \/ GetClientLoginAny \/ GetClientReturnAny \/ SendRequestAny

SessionSpecInit ==
    SyncInit /\ CacheInit /\ CodecIdle /\ DavIdle /\ FacIdle /\ Others /\ now = 0 /\ tz = 0

SessionSpec == SessionSpecInit /\ [][SessionNext]_vars

SyncCallAny == \E token \in {Null, "s0"} : SyncCall(token)
SyncPageAny == \E resp \in Responses(Len(requests) + 1) : SyncPage(resp)
SyncPageFailsAny == \E err \in Errors : SyncPageFails(err)

SyncNext == SyncCallAny \/ SyncPageAny \/ SyncPageFailsAny

SyncSpecInit == SyncInit /\ CacheInit /\ CodecIdle /\ DavIdle /\ FacIdle /\ Others /\ EnvInit

SyncSpec == SyncSpecInit /\ [][SyncNext]_vars

\* the host clock advances while a page request is awaited
ClockAdvances ==
    /\ syncPc = "loop"
    /\ now < 1750428000 + MaxClockSteps
    /\ now' = now + 1
    /\ UNCHANGED <<tz, syncVars, cacheVars, codecVars, davVars, facVars, updVars, recVars,
                   delVars, sessVars, gtVars, editVars, raceVars, calVars>>

\* syncEvents with time passing between its page requests
TimedSyncNext == SyncNext \/ ClockAdvances

TimedSyncSpec == SyncSpecInit /\ [][TimedSyncNext]_vars

-----------------------------------------------------------------------------
(* Properties of GoogleCalendarProvider.syncEvents *)

\* the token-invalidity indicator of a rejected request: an Error whose
\* message contains "410" or "sync token"
HasExpiryIndicator(err) ==
    /\ err # NoValue
    /\ err.isError
    /\ (Includes(err.message, Str410) \/ Includes(err.message, StrSyncToken))

\* every item received during the call, in the order received
AllItems == Concat([k \in 1..Len(responses) |-> ResponseItems(responses[k])])

IsCancelled(item) == Has(item, "status") /\ item.status = "cancelled"
NotCancelled(item) == ~IsCancelled(item)

ItemIds(items) == [k \in 1..Len(items) |-> items[k].id]
EventIds(events) == [k \in 1..Len(events) |-> events[k].remoteEventId]

\* C1: when a page request (first or later, with or without a sync token)
\* fails with an Error whose message carries a token-invalidity indicator,
\* the call does not throw and returns exactly the empty SyncResult with no
\* sync token, whatever earlier pages delivered.
C1_ExpiredTokenReturnsEmpty ==
    HasExpiryIndicator(failure) =>
        /\ syncPc = "returned"
        /\ syncThrown = NoValue
        /\ syncResult = [created |-> <<>>, updated |-> <<>>, deletedRemoteIds |-> <<>>,
                         newSyncToken |-> Null, newCtag |-> Null]

\* C1 witness: a later page of a token-less call failed with an indicator
\* after earlier pages had delivered an event and a deletion.
C1_Witness ==
    /\ HasExpiryIndicator(failure)
    /\ syncToken = Null
    /\ Len(responses) >= 2
    /\ created # <<>>
    /\ deletedRemoteIds # <<>>
    /\ syncPc = "returned"

\* C2: when a page request fails with a value that carries no
\* token-invalidity indicator (a non-Error value included), the call throws
\* that same value, returns nothing, and the failed request is the last one.
C2_OtherErrorsPropagate ==
    (failure # NoValue /\ ~HasExpiryIndicator(failure)) =>
        /\ syncPc = "thrown"
        /\ syncThrown = failure
        /\ syncResult = NoValue
        /\ Len(requests) = Len(responses) + 1

\* C2 witness: a later page rejected with a plain string that spells "410".
C2_Witness ==
    /\ failure # NoValue
    /\ ~failure.isError
    /\ failure.message = Str410
    /\ Len(responses) >= 1
    /\ syncPc = "thrown"

\* C3: a call answered by n-1 pages with a page token and a final page
\* without one issues exactly n requests, request k+1 carrying the page
\* token of response k (the first none); the result lists the items in page
\* order and newSyncToken is the final page's sync token.
C3_SequentialPagination ==
    /\ (syncPc = "loop" /\ failure = NoValue) => Len(requests) = Len(responses)
    /\ \A k \in 1..Len(requests) :
           IF k = 1 THEN ~Has(requests[k], "pageToken")
           ELSE /\ Has(requests[k], "pageToken")
                /\ Has(responses[k - 1], "nextPageToken")
                /\ requests[k].pageToken = responses[k - 1].nextPageToken
    /\ (syncPc = "returned" /\ failure = NoValue) =>
           LET n == Len(responses)
           IN  /\ Len(requests) = n
               /\ n >= 1
               /\ ~Has(responses[n], "nextPageToken")
               /\ EventIds(syncResult.created) = ItemIds(SelectSeq(AllItems, NotCancelled))
               /\ syncResult.deletedRemoteIds = ItemIds(SelectSeq(AllItems, IsCancelled))
               /\ syncResult.newSyncToken =
                      (IF Has(responses[n], "nextSyncToken")
                       THEN responses[n].nextSyncToken ELSE Null)

\* C3 witness: a three-page call that returned events from several pages
\* together with the final page's sync token.
C3_Witness ==
    /\ syncPc = "returned"
    /\ failure = NoValue
    /\ Len(requests) = 3
    /\ Len(syncResult.created) >= 2
    /\ syncResult.newSyncToken = "s2"

\* C4: of the items received over all pages of a completed call, exactly
\* the cancelled ones appear, by id, in deletedRemoteIds and every other
\* one appears, mapped, in created; nothing is dropped or duplicated and
\* updated is empty.
C4_Classification ==
    (syncPc = "returned" /\ failure = NoValue) =>
        LET live == SelectSeq(AllItems, NotCancelled)
            dead == SelectSeq(AllItems, IsCancelled)
        IN  /\ syncResult.created = [k \in 1..Len(live) |-> mapGoogleEvent(live[k], tz)]
            /\ syncResult.deletedRemoteIds = [k \in 1..Len(dead) |-> dead[k].id]
            /\ syncResult.updated = <<>>
            /\ Len(syncResult.created) + Len(syncResult.deletedRemoteIds) = Len(AllItems)

\* C4 witness: a completed call that received cancelled and live items,
\* one of them without a status.
C4_Witness ==
    /\ syncPc = "returned"
    /\ failure = NoValue
    /\ syncResult.deletedRemoteIds # <<>>
    /\ \E k \in 1..Len(syncResult.created) : syncResult.created[k].remoteEventId = "e3"
    /\ \E k \in 1..Len(syncResult.created) : syncResult.created[k].remoteEventId = "e1"

\* C27: every page request of a call without sync token carries timeMin,
\* 90 days before the clock, timeMax, the same date and time one year after
\* it, and singleEvents = "true", and no syncToken; every page request of a
\* call with a sync token carries that token and none of timeMin, timeMax
\* and singleEvents.
C27_RequestShape ==
    \A k \in 1..Len(requests) :
        IF syncToken = Null
        THEN /\ ~Has(requests[k], "syncToken")
             /\ Has(requests[k], "timeMin") /\ Has(requests[k], "timeMax")
             /\ Has(requests[k], "singleEvents")
             /\ requests[k].singleEvents = "true"
             /\ requests[k].timeMin = now - 90 * 86400
             /\ Fields(requests[k].timeMax, tz)
                    = [Fields(now, tz) EXCEPT !.y = Fields(now, tz).y + 1]
        ELSE /\ Has(requests[k], "syncToken")
             /\ requests[k].syncToken = syncToken
             /\ ~Has(requests[k], "timeMin")
             /\ ~Has(requests[k], "timeMax")
             /\ ~Has(requests[k], "singleEvents")

\* C27 witness: a call with a sync token has issued a first and a later page
\* request
C27_Witness ==
    /\ syncToken = "s0"
    /\ Len(requests) >= 2
    /\ Has(requests[2], "pageToken")
    /\ requests[2].syncToken = "s0"
    /\ DOMAIN requests[2] = {"maxResults", "syncToken", "pageToken"}

\* C32: a call without sync token that returns has completed every page:
\* it returns the items of all pages with the last page's sync token, and
\* never the empty result that asks for a full resync after a failed request.
C32_InitialSyncNoSignal ==
    (syncToken = Null /\ syncPc = "returned") =>
        /\ failure = NoValue
        /\ ~Has(responses[Len(responses)], "nextPageToken")
        /\ syncResult.newSyncToken = NextSyncToken(Null, responses[Len(responses)])

\* the query parameters of a request other than its pageToken
WithoutPageToken(params) == [x \in DOMAIN params \ {"pageToken"} |-> params[x]]

\* C33: all page requests of one call carry the same query parameters apart
\* from pageToken; on a call without sync token the timeMin/timeMax window
\* of every later page is the window of the first page.
C33_SameParametersOnEveryPage ==
    \A k \in 1..Len(requests) : WithoutPageToken(requests[k]) = WithoutPageToken(requests[1])

-----------------------------------------------------------------------------
(* Properties of the event cache *)

\* the event data a row stores: every column but id and updated_at
RowData(r) ==
    [f \in DOMAIN r \ {"id", "updated_at"} |-> r[f]]

\* the event data a row must hold after event arg was upserted
ArgData(arg) ==
    [account_id      |-> arg.accountId,
     google_event_id |-> arg.googleEventId,
     summary         |-> arg.summary,
     description     |-> arg.description,
     location        |-> arg.location,
     start_time      |-> arg.startTime,
     end_time        |-> arg.endTime,
     is_all_day      |-> IF arg.isAllDay THEN 1 ELSE 0,
     status          |-> arg.status,
     organizer_email |-> arg.organizerEmail,
     attendees_json  |-> arg.attendeesJson,
     html_link       |-> arg.htmlLink,
     calendar_id     |-> arg.calendarId,
     remote_event_id |-> arg.remoteEventId,
     etag            |-> arg.etag,
     ical_data       |-> arg.icalData,
     uid             |-> arg.uid]

\* the table after an uninterrupted run over batch b from table t
RECURSIVE RunBatch(_, _, _)
RunBatch(t, b, id) ==
    IF b = <<>> THEN t
    ELSE RunBatch(upsertCalendarEvent(t, UpsertArg(Head(b)), id, 0), Tail(b), id + 1)

\* C5: every (calendar, remote id) pair upserted by a completed run has its
\* own row: events with one remote id in two calendars of the account stay
\* two rows, each still assigned to its calendar.
C5_RowPerCalendarAndRemoteId ==
    loadPc = "done" =>
        \A k \in 1..Len(batch) :
            \E r \in rows : /\ r.calendar_id = batch[k][1]
                            /\ r.remote_event_id = batch[k][2].remoteEventId

\* C6: upsert is an idempotent full replacement.  No two rows share a key;
\* an upsert leaves its key's row holding exactly the new event's values
\* (nulls included) under the id the row was first inserted with, and
\* leaves every other row alone; re-applying the event a row already holds
\* changes no event data; and a run that failed partway and was run again
\* ends with the same event data as one uninterrupted run.
C6_IdempotentFullReplacement ==
    /\ [](\A r1, r2 \in rows :
              (r1.account_id = r2.account_id /\ r1.google_event_id = r2.google_event_id)
                  => r1 = r2)
    /\ [](loadPc = "done" =>
              /\ {RowData(r) : r \in rows}
                     = {RowData(r) : r \in RunBatch(rowsAtStart, batch, 1)}
              /\ Cardinality(rows) = Cardinality(RunBatch(rowsAtStart, batch, 1)))
    /\ [][pos' = pos + 1 =>
              LET arg == UpsertArg(batch[pos'])
                  old == {r \in rows : r.account_id = arg.accountId
                                       /\ r.google_event_id = arg.googleEventId}
                  new == {r \in rows' : r.account_id = arg.accountId
                                        /\ r.google_event_id = arg.googleEventId}
              IN  /\ Cardinality(new) = 1
                  /\ \A r \in new : RowData(r) = ArgData(arg)
                  /\ \A r \in new : \A o \in old : r.id = o.id
                  /\ rows' \ new = rows \ old
                  /\ (\A o \in old : RowData(o) = ArgData(arg)) =>
                         {RowData(r) : r \in rows'}
                             = {RowData(r) : r \in rows} \cup {ArgData(arg)}
       ]_vars

\* C6 witness: a run over a full event and then its all-null version under
\* the same key failed partway, was run again and completed with one row.
C6_Witness ==
    /\ loadPc = "done"
    /\ Len(batch) = 2
    /\ batch[1] = <<"c1", FullEvent("e1")>>
    /\ batch[2] = <<"c1", BareEvent("e1")>>
    /\ nextUuid - 1 > Len(batch)
    /\ Cardinality(rows) = 1
    /\ \A r \in rows : r.summary = Null /\ r.id = 1

Keyed(r, calendarId, remoteEventId) ==
    r.calendar_id = calendarId /\ r.remote_event_id = remoteEventId

\* C20: after deleteEventByRemoteId(c, rid) no row of calendar c with remote
\* id rid remains, every row with another key is still there and no row was
\* added or altered; when the call follows upsertCalendarEvent for the same
\* calendar and remote id, the one row holding that event is the row that
\* went away; and when no row had the key the table is as it was.
C20_DeleteByRemoteId ==
    loadPc = "deleted" =>
        LET c   == delCall.calendarId
            rid == delCall.remoteEventId
            hit == {r \in delBefore : Keyed(r, c, rid)}
        IN  /\ \A r \in rows : ~Keyed(r, c, rid)
            /\ \A r \in delBefore : ~Keyed(r, c, rid) => r \in rows
            /\ rows \subseteq delBefore
            /\ (delPrev # NoValue /\ delPrev.calendarId = c /\ delPrev.remoteEventId = rid)
                   => /\ Cardinality(hit) = 1
                      /\ \A r \in hit : RowData(r) = ArgData(delPrev)
                      /\ rows = delBefore \ hit
            /\ hit = {} => rows = delBefore

\* C20 witness: a run upserted e2 into c1 and then e1 into c2, and the
\* deletion of (c2, e1) left exactly the row of (c1, e2)
C20_Witness ==
    /\ loadPc = "deleted"
    /\ delCall = [calendarId |-> "c2", remoteEventId |-> "e1"]
    /\ delPrev # NoValue
    /\ delPrev.calendarId = "c2"
    /\ delPrev.remoteEventId = "e1"
    /\ Cardinality(delBefore) = 2
    /\ Cardinality(rows) = 1
    /\ \A r \in rows : Keyed(r, "c1", "e2")

-----------------------------------------------------------------------------
(* Saving an event in the editor: handleSave, then onUpdated -> loadEvents *)

\* getRange: the range the page displays, as epoch seconds
DisplayedRange == [start |-> 0, end |-> 10000]

\* the provider returns an event for timeMin..timeMax when the two overlap
InRange(e) == e.endTime > DisplayedRange.start /\ e.startTime < DisplayedRange.end

\* what the editor sends: the summary and the new start and end, the latter
\* inside or outside the displayed range
EditPatches ==
    {[summary |-> "Edited", startTime |-> 2000, endTime |-> 3000],
     [summary |-> "Edited", startTime |-> 20000, endTime |-> 23600]}

\* the event the provider holds, and returns, after updateEvent(e, patch)
ProviderUpdate(e, patch) ==
    [e EXCEPT !.summary = patch.summary, !.startTime = patch.startTime,
              !.endTime = patch.endTime]

\* const remoteEventId = event.remote_event_id ?? event.google_event_id
EditedRemoteId(r) == IF r.remote_event_id # Null THEN r.remote_event_id ELSE r.google_event_id

\* const calendarRemoteId = calendar?.remote_id ?? "primary"
EditedCalendar(r) == IF r.calendar_id \in CalendarIds THEN r.calendar_id ELSE "primary"

\* entry k of what the provider holds is the event the editor shows as row r
IsEdited(b, k, r) == b[k][1] = EditedCalendar(r) /\ b[k][2].remoteEventId = EditedRemoteId(r)

\* handleSave on the cached row r: updateEvent succeeds, its result is
\* dropped, and onUpdated runs loadEvents over the displayed range, the
\* provider now returning the events of that range as they are after the
\* update
HandleSave(r, patch) ==
    /\ loadPc = "done"
    /\ edCall = NoValue
    /\ r \in rows
    /\ \E k \in 1..Len(batch) :
          /\ IsEdited(batch, k, r)
          /\ edReturned' = ProviderUpdate(batch[k][2], patch)
          /\ batch' = SelectSeq([j \in 1..Len(batch) |->
                                    IF IsEdited(batch, j, r)
                                    THEN <<batch[j][1], ProviderUpdate(batch[k][2], patch)>>
                                    ELSE batch[j]],
                                LAMBDA pair : InRange(pair[2]))
    /\ edCall' = [op |-> "updateEvent", calendarRemoteId |-> EditedCalendar(r),
                  remoteEventId |-> EditedRemoteId(r), patch |-> patch]
    /\ loadPc' = "running"
    /\ pos' = 0
    /\ rowsAtStart' = rows
    /\ UNCHANGED <<rows, nextUuid, dbTime, syncVars, codecVars, davVars, facVars, updVars,
                   recVars, delVars, sessVars, gtVars, raceVars, calVars, envVars>>

\* handleSave on the cached row r: updateEvent throws, the error is logged
\* and onUpdated is not called
HandleSaveFails(r, patch) ==
    /\ loadPc = "done"
    /\ edCall = NoValue
    /\ r \in rows
    /\ edCall' = [op |-> "updateEvent", calendarRemoteId |-> EditedCalendar(r),
                  remoteEventId |-> EditedRemoteId(r), patch |-> patch]
    /\ edReturned' = [tag |-> "thrown"]
    /\ UNCHANGED <<cacheVars, syncVars, codecVars, davVars, facVars, updVars,
                   recVars, delVars, sessVars, gtVars, raceVars, calVars, envVars>>

\* the event the provider stores, and returns, for createEvent(input)
ProviderCreate(input, rid) ==
    [remoteEventId |-> rid, uid |-> rid, etag |-> "t1", summary |-> input.summary,
     description |-> Null, location |-> Null, startTime |-> input.startTime,
     endTime |-> input.endTime, isAllDay |-> FALSE, status |-> "confirmed",
     organizerEmail |-> Null, attendeesJson |-> JsonNull, htmlLink |-> Null,
     icalData |-> Null]

\* the remote id the server gives a created event
CreatedRemoteId == "e3"

\* mutant: the row is saved before the provider has answered
CacheAfterCreate_Optimistic(table, ok, arg, id, t) == upsertCalendarEvent(table, arg, id, t)

\* the table after the try block of handleCreateEvent: the upsert follows
\* the awaited createEvent and is skipped when that throws
CacheAfterCreate(table, ok, arg, id, t) ==
    IF ok THEN upsertCalendarEvent(table, arg, id, t) ELSE table

\* deleteCalendarEvent: DELETE FROM calendar_events WHERE id = $1
deleteCalendarEvent(table, eventId) == {r \in table : r.id # eventId}

\* the table after the try block of handleDelete: the local delete follows
\* the awaited deleteEvent and is skipped when that throws
CacheAfterDelete(table, ok, eventId) ==
    IF ok THEN deleteCalendarEvent(table, eventId) ELSE table

\* handleCreateEvent(input) with cal the calendar found for it (Null: no
\* calendar is known and "primary" is used); ok tells whether
\* provider.createEvent resolves.  On success the row is saved and
\* loadEvents is started; on failure the error is logged.
HandleCreate(input, cal, ok) ==
    /\ loadPc \in {"idle", "done"}
    /\ edCall = NoValue
    /\ nextUuid <= MaxUpserts
    /\ edCall' = [op |-> "createEvent",
                  calendarRemoteId |-> IF cal # Null THEN cal ELSE "primary",
                  remoteEventId |-> CreatedRemoteId, patch |-> input]
    /\ edReturned' = IF ok THEN ProviderCreate(input, CreatedRemoteId)
                      ELSE [tag |-> "thrown"]
    /\ rows' = CacheAfterCreate(rows, ok,
                   upsertCalendarEventFromProvider(AccountId, cal,
                       ProviderCreate(input, CreatedRemoteId)),
                   nextUuid, dbTime)
    /\ nextUuid' = IF ok THEN nextUuid + 1 ELSE nextUuid
    /\ IF ok
       THEN /\ loadPc' = "running"
            /\ pos' = 0
            /\ rowsAtStart' = rows'
            /\ batch' = SelectSeq(IF cal # Null
                                  THEN Append(batch, <<cal, ProviderCreate(input, CreatedRemoteId)>>)
                                  ELSE batch,
                                  LAMBDA pair : InRange(pair[2]))
       ELSE UNCHANGED <<loadPc, pos, rowsAtStart, batch>>
    /\ UNCHANGED <<dbTime, syncVars, codecVars, davVars, facVars, updVars,
                   recVars, delVars, sessVars, gtVars, raceVars, calVars, envVars>>

\* handleDelete on the cached row r; ok tells whether provider.deleteEvent
\* resolves.  On success the row is deleted by id and onUpdated starts
\* loadEvents; on failure the error is logged.
HandleDelete(r, ok) ==
    /\ loadPc = "done"
    /\ edCall = NoValue
    /\ r \in rows
    /\ edCall' = [op |-> "deleteEvent", calendarRemoteId |-> EditedCalendar(r),
                  remoteEventId |-> EditedRemoteId(r), patch |-> NoValue]
    /\ edReturned' = IF ok THEN [tag |-> "void"] ELSE [tag |-> "thrown"]
    /\ rows' = CacheAfterDelete(rows, ok, r.id)
    /\ IF ok
       THEN /\ loadPc' = "running"
            /\ pos' = 0
            /\ rowsAtStart' = rows'
            /\ batch' = SelectSeq(batch, LAMBDA pair :
                                      ~(pair[1] = EditedCalendar(r)
                                          /\ pair[2].remoteEventId = EditedRemoteId(r)))
       ELSE UNCHANGED <<loadPc, pos, rowsAtStart, batch>>
    /\ UNCHANGED <<nextUuid, dbTime, syncVars, codecVars, davVars, facVars, updVars,
                   recVars, delVars, sessVars, gtVars, raceVars, calVars, envVars>>

HandleCreateAny ==
    \E input \in EditPatches, cal \in CalendarIds \cup {Null}, ok \in BOOLEAN :
        HandleCreate(input, cal, ok)

HandleDeleteAny == \E r \in rows, ok \in BOOLEAN : HandleDelete(r, ok)

HandleSaveAny == \E r \in rows, patch \in EditPatches : HandleSave(r, patch)

HandleSaveFailsAny == \E r \in rows, patch \in EditPatches : HandleSaveFails(r, patch)

EditNext ==
    \/ LoadStartAny \/ LoadUpsert \/ LoadFails \/ LoadAgain \/ LoadDone
    \/ HandleSaveAny \/ HandleSaveFailsAny \/ HandleCreateAny \/ HandleDeleteAny

EditSpec == CacheSpecInit /\ [][EditNext]_vars

\* the remote ids cached for calendar c
CachedIds(c) == {r.remote_event_id : r \in {x \in rows : x.calendar_id = c}}

\* the remote ids the provider returned for calendar c in the last run
ReturnedIds(c) == {batch[k][2].remoteEventId : k \in {j \in 1..Len(batch) : batch[j][1] = c}}

\* no remote id is used in two calendars, in the cache at the start of the
\* run or in what the provider returned
IdsApart ==
    \A c1, c2 \in CalendarIds :
        c1 # c2 =>
            LET ids(c) == ReturnedIds(c) \cup
                          {r.remote_event_id : r \in {x \in rowsAtStart : x.calendar_id = c}}
            IN  ids(c1) \cap ids(c2) = {}

\* C28: once a run of loadEvents has completed, the events cached for each
\* calendar are exactly the events the provider returned for it in that
\* run (every event lies in the range; remote ids are not shared between
\* calendars, so that the key of the upsert plays no part).
C28_AbsentEventsDestroyed ==
    (loadPc = "done" /\ IdsApart) => \A c \in CalendarIds : CachedIds(c) = ReturnedIds(c)

\* C34: when the provider's createEvent or deleteEvent throws, the handler
\* leaves the cache exactly as it was: no row is inserted, none is removed
\* and none is changed.
C34_CacheUntouchedOnFailure ==
    [][((HandleCreateAny \/ HandleDeleteAny) /\ edReturned' = [tag |-> "thrown"])
           => rows' = rows]_vars

\* C34 witness: a createEvent, and a deleteEvent of a cached event, have
\* thrown while the cache held rows
C34_Witness ==
    /\ edCall # NoValue
    /\ edCall.op \in {"createEvent", "deleteEvent"}
    /\ edReturned = [tag |-> "thrown"]
    /\ rows # {}
    /\ edCall.op = "deleteEvent" =>
           \E r \in rows : r.remote_event_id = edCall.remoteEventId

\* the editor's updateEvent call returned an event
SaveReturned ==
    /\ edCall # NoValue
    /\ edCall.op = "updateEvent"
    /\ edReturned # NoValue
    /\ edReturned # [tag |-> "thrown"]

\* C29: once the reload that follows a successful save has completed, the
\* cache holds a row for the edited event and that row is what upserting the
\* event returned by updateEvent gives, whether the new times lie inside or
\* outside the displayed range (remote ids are not shared between calendars).
C29_SavedEventCached ==
    (loadPc = "done" /\ SaveReturned /\ IdsApart) =>
        \E r \in rows :
            /\ r.calendar_id = edCall.calendarRemoteId
            /\ r.remote_event_id = edCall.remoteEventId
            /\ r = UpdatedRow(r, UpsertArg(<<edCall.calendarRemoteId, edReturned>>),
                              r.updated_at)

-----------------------------------------------------------------------------
(* icalHelper: properties *)

Parsed(kind) == codecPc = "parsed" /\ codecIn.kind = kind

TextFields == {"summary", "description", "location"}

TimedInput == ~(Has(codecIn.event, "isAllDay") /\ codecIn.event.isAllDay)

\* C7: whenever an event whose summary, description or location is a
\* non-empty text t over ordinary characters, ";", ",", backslash and
\* newline has been generated and parsed back, the parsed field is exactly t.
C7_EscapingRoundTrip ==
    (Parsed("event") /\ codecIn.event \in TextEvents)
        => \A f \in TextFields :
               Truthy(codecIn.event, f) => decoded[f] = codecIn.event[f]

\* C8: whenever a non-all-day event has been generated with a supplied uid
\* and parsed back, the parsed uid is the supplied uid, isAllDay is false and
\* startTime / endTime are the whole seconds of the input instants, in every
\* time zone.
C8_TimedRoundTrip ==
    (Parsed("event") /\ TimedInput /\ codecIn.uid # NullStr)
        => /\ decoded.uid = codecIn.uid
           /\ decoded.isAllDay = FALSE
           /\ decoded.startTime = codecIn.event.startTime.sec
           /\ decoded.endTime = codecIn.event.endTime.sec

\* an instant with milliseconds went through the round trip away from UTC
C8_Witness ==
    /\ Parsed("event")
    /\ TimedInput
    /\ codecIn.uid = <<"u", "1">>
    /\ codecIn.event.startTime = [sec |-> 1709251199, ms |-> 500]
    /\ tz # 0
    /\ decoded.uid = <<"u", "1">>
    /\ decoded.startTime = 1709251199

\* C9: whenever a resource whose SUMMARY is folded onto a second physical
\* line (line ends CRLF, LF or CR; continuation marked by a space or a tab)
\* has been parsed, the summary is the two halves joined with only the
\* marking whitespace character removed.
C9_Unfolding ==
    Parsed("folded") => decoded.summary = codecIn.head \o codecIn.tail

\* C10: whenever a resource has been parsed, a missing DTSTART gives
\* startTime 0, a missing DTEND gives endTime = startTime + 3600, a missing
\* STATUS gives "confirmed", missing text, organizer and attendee lines give
\* null, and a result was returned.
C10_DecodeDefaults ==
    Parsed("sparse")
        => /\ decoded # NoValue
           /\ codecIn.dtstart = "none" => decoded.startTime = 0
           /\ codecIn.dtend = "none" => decoded.endTime = decoded.startTime + 3600
           /\ ~codecIn.status => decoded.status = <<"c", "o", "n", "f", "i", "r", "m", "e", "d">>
           /\ ~codecIn.texts => \A f \in TextFields : decoded[f] = NullStr
           /\ ~codecIn.organizer => decoded.organizerEmail = NullStr
           /\ ~codecIn.attendee => decoded.attendeesJson = JsonNull

\* an all-day resource without DTEND, STATUS and text lines was parsed
C10_Witness ==
    /\ Parsed("sparse")
    /\ codecIn.dtstart = "date"
    /\ codecIn.dtend = "none"
    /\ ~codecIn.status
    /\ ~codecIn.texts
    /\ decoded.isAllDay
    /\ decoded.startTime > 0
    /\ decoded.endTime = decoded.startTime + 3600
    /\ decoded.summary = NullStr

\* the calendar date of second t at UTC offset off
CalendarDate(t, off) == <<Fields(t, off).y, Fields(t, off).m, Fields(t, off).d>>

\* the values of the property lines of text that start with name
ValuesOf(text, name) ==
    LET ls == unfoldLines(text)
    IN  {Substring(ls[i], Len(name), Len(ls[i])) : i \in {j \in 1..Len(ls) : StartsWith(ls[j], name)}}

DateOnly(value) == Len(value) = 8 /\ \A i \in 1..8 : IsDigit(value[i])

AllDayInput == Has(codecIn.event, "isAllDay") /\ codecIn.event.isAllDay

C21_IdentitySelection ==
    [][\A href \in ParseHrefs :
          (Parse(href) /\ codecIn.kind = "ident") =>
              /\ decoded'.uid = IdentUid(codecIn)
              /\ href # NullStr => decoded'.remoteEventId = href
              /\ (href = NullStr /\ codecIn.uidLine # "none")
                     => decoded'.remoteEventId = IdentUid(codecIn)
              /\ (href = NullStr /\ codecIn.uidLine = "none")
                     => /\ decoded'.remoteEventId = UuidText(nextUuid)
                        /\ decoded'.remoteEventId # <<>>
                        /\ nextUuid' = nextUuid + 1
                        /\ decoded'.uid = NullStr]_vars

\* a resource with a UID line was parsed with an href: the href is the
\* remote id and the UID value the uid
C21_Witness ==
    /\ Parsed("ident")
    /\ codecIn.uidLine = "colon"
    /\ decoded.remoteEventId = <<"/", "c", "a", "l", "/", "e", "1", ".", "i", "c", "s">>
    /\ decoded.uid = <<"a", ":", "b", ";", "c">>

\* the three values of an Event's status
EventStatuses == {<<"c", "o", "n", "f", "i", "r", "m", "e", "d">>, <<"t", "e", "n", "t", "a", "t", "i", "v", "e">>, <<"c", "a", "n", "c", "e", "l", "l", "e", "d">>}

\* C31: every decoded event has one of the three statuses, and "confirmed"
\* when the resource carries no STATUS line.
C31_StatusDomain ==
    codecPc = "parsed" =>
        /\ decoded.status \in EventStatuses
        /\ (codecIn.kind = "sparse" /\ ~codecIn.status) => decoded.status = <<"c", "o", "n", "f", "i", "r", "m", "e", "d">>

\* C30: every decoded event has whole-number start and end times and a
\* non-empty remote id, whatever the resource text and the href were.
C30_DecodeWellFormed ==
    codecPc = "parsed" =>
        /\ ~IsNaN(decoded.startTime)
        /\ ~IsNaN(decoded.endTime)
        /\ decoded.remoteEventId # <<>>

\* the fields of a decoded event that C40 speaks of
EventFields(ev) == <<ev.summary, ev.description, ev.location, ev.startTime, ev.endTime>>

\* the same resource with nothing but the VEVENT block in the VCALENDAR
OnlyEvent(r) == [r EXCEPT !.component = "none"]

\* C40: the decoded summary, description, location, start and end of a
\* resource are those of its VEVENT block alone; the property lines of a
\* nested VALARM or of a VTIMEZONE or VTODO next to the VEVENT change none
\* of them.
C40_OnlyEventBlock ==
    (codecPc = "parsed" /\ codecIn.kind = "nested") =>
        EventFields(decoded) =
            EventFields(parseVEvent(NestedText(OnlyEvent(codecIn)), NullStr,
                                    UuidText(nextUuid), tz))

-----------------------------------------------------------------------------
(* Properties of CalDAVProvider *)

\* C11: after an operation failed because login failed the provider holds no
\* cached connection, and no operation is issued over a connection whose
\* login did not succeed
C11_NoPoisonedConnection ==
    /\ (davResult.tag = "thrown" /\ davResult.cause = "login") => client = Null
    /\ ~davUnauth

\* an updateEvent call has returned an event
UpdateReturned ==
    /\ davPc = "idle"
    /\ Has(davCall, "name") /\ davCall.name = "updateEvent"
    /\ davResult.tag = "returned"

\* C12: the event updateEvent writes and returns keeps the UID of the
\* existing resource, and every canonical field the caller did not supply
\* equals the value decoded from the existing resource
C12_MergeKeepsUnsupplied ==
    UpdateReturned =>
        LET old == parseVEvent(davExisting.data, davCall.url, UuidText(nextUuid), tz)
            new == davResult.value
        IN  /\ new.uid = old.uid
            /\ \A f \in {"summary", "description", "location", "startTime", "endTime",
                         "isAllDay"} \ DOMAIN davCall.event : new[f] = old[f]
            /\ new.status = old.status
            /\ new.organizerEmail = old.organizerEmail
            /\ new.attendeesJson = old.attendeesJson

\* the entity tag the write-back of the updateEvent call in progress has to
\* be conditioned on: the caller's, else that of the object just fetched
ExpectedEtag == IF Has(davCall, "etag") THEN davCall.etag ELSE davExisting.etag

\* the server still holds the object of the call under the expected tag
Unchanged(srv) ==
    \E k \in 1..Len(srv) : srv[k].url = davCall.url /\ srv[k].etag = ExpectedEtag

\* C13: the write-back of updateEvent is conditioned on the caller's entity
\* tag or, without one, on that of the object just fetched: when the object
\* was modified after that tag was issued, the write leaves the server as the
\* other client left it
C13_ConditionalWrite ==
    [][(davPc = "writing" /\ davPc' = "idle" /\ ~Unchanged(server)) => server' = server]_vars

\* an updateEvent without a caller tag was refused, and the object holds what
\* the other client wrote after the fetch
C13_Witness ==
    /\ davPc = "idle"
    /\ Has(davCall, "name") /\ davCall.name = "updateEvent" /\ ~Has(davCall, "etag")
    /\ davResult.tag = "thrown" /\ davResult.message = "412 Precondition Failed"
    /\ davExisting.data # ForeignResource
    /\ \E k \in 1..Len(server) :
           server[k].url = davCall.url /\ server[k].data = ForeignResource

\* result is the CalendarSyncResult for a server holding the objects srv
SyncShape(result, srv) ==
    LET at == {k \in 1..Len(srv) : HasPayload(srv[k])}
    IN  /\ result.updated = <<>>
        /\ result.deletedRemoteIds = <<>>
        /\ result.newSyncToken = Null
        /\ result.newCtag = Null
        /\ Len(result.created) = Cardinality(at)
        /\ \A k \in at :
               LET n == Cardinality({j \in at : j <= k})
               IN  /\ result.created[n].remoteEventId = srv[k].url
                   /\ result.created[n].etag = srv[k].etag

\* C17: a syncEvents call that returns has updated and deletedRemoteIds empty,
\* no sync markers, and in created one event per server object with a payload,
\* in server order, with the object's url and entity tag
C17_SyncResultShape ==
    [][(davOps' = davOps + 1 /\ davCall'.name = "syncEvents" /\ davResult'.tag = "returned")
          => SyncShape(davResult'.value, server)]_vars

\* syncEvents with a sync token returned from a server that holds an object
\* without payload next to one with a payload
C17_Witness ==
    /\ Has(davCall, "name") /\ davCall.name = "syncEvents" /\ Has(davCall, "syncToken")
    /\ davResult.tag = "returned"
    /\ \E k \in 1..Len(server) : ~HasPayload(server[k])
    /\ Len(davResult.value.created) = 1

\* the fetch by url of updateEvent finds nothing it can merge into
NotFound(srv, url) ==
    \A k \in 1..Len(srv) : srv[k].url = url => ~HasPayload(srv[k])

\* C23: an updateEvent whose connection is established and whose fetch by
\* url returns no object, or an object without payload, throws "Event not
\* found on server"; the server is left as it was and no write is pending.
C23_UpdateNotFound ==
    [][(/\ davOps' = davOps + 1
        /\ davCall'.name = "updateEvent"
        /\ client' # Null /\ clientLoggedIn'
        /\ NotFound(server, davCall'.url))
          => /\ davResult' = [tag |-> "thrown", cause |-> "notfound",
                              message |-> "Event not found on server"]
             /\ server' = server
             /\ etagCount' = etagCount
             /\ davPc' = "idle"
             /\ davWrite' = davWrite]_vars

\* updateEvent was called for the url of an object the server holds without
\* payload, and threw
C23_Witness ==
    /\ davCall # NoValue
    /\ davCall.name = "updateEvent"
    /\ davCall.url = DavObjectPool[2].url
    /\ \E k \in 1..Len(server) : server[k].url = davCall.url /\ ~HasPayload(server[k])
    /\ davResult = [tag |-> "thrown", cause |-> "notfound",
                    message |-> "Event not found on server"]
    /\ davPc = "idle"
    /\ davWrite = NoValue

\* the calendar list can be fetched over the provider's connection: the
\* account is configured, the connection is or gets logged in, and the
\* request for the list resolves
CanList(loginOk, list) ==
    /\ account # NoValue
    /\ TruthyValue(account.caldav_url) /\ TruthyValue(account.caldav_password)
    /\ IF client # Null THEN clientLoggedIn ELSE loginOk
    /\ list.ok

\* the messages of the Errors getClient and the connection raise
ConnectErrors ==
    {"Account not found", "CalDAV credentials not configured", "Invalid credentials",
     "401 Unauthorized"}

\* C24: testConnection of either provider returns and does not throw;
\* success is true exactly when the calendar list could be fetched;
\* otherwise the message is that of the Error thrown, or "Connection failed"
\* when what was thrown is not an Error; and after a failure the CalDAV
\* provider holds no client, so that the next operation logs in afresh.
C24_TestConnection ==
    [][/\ \A ok \in BOOLEAN, list \in ListOutcomes :
              TestConnection(ok, list) =>
                  /\ davResult'.tag = "returned"
                  /\ davResult'.value.success = CanList(ok, list)
                  /\ ~CanList(ok, list) =>
                        /\ client' = Null
                        /\ ~clientLoggedIn'
                        /\ IF CanList(ok, [list EXCEPT !.ok = TRUE])
                           THEN davResult'.value.message =
                                    IF list.isError THEN list.message
                                    ELSE "Connection failed"
                           ELSE davResult'.value.message \in ConnectErrors
       /\ \A list \in ListOutcomes :
              GoogleTestConnection(list) =>
                  /\ googleTest'.success = list.ok
                  /\ ~list.ok => googleTest'.message =
                                     IF list.isError THEN list.message
                                     ELSE "Connection failed"
      ]_vars

\* both providers answered a rejection that is not an Error, the CalDAV one
\* on its second attempt, after which it holds no client
C24_Witness ==
    /\ davOps = 2
    /\ davCall = [name |-> "testConnection"]
    /\ davResult = Returned([success |-> FALSE, message |-> "Connection failed"])
    /\ client = Null
    /\ googleTest = [success |-> FALSE, message |-> "Connection failed"]

\* the account row is missing or lacks the server url or the password
Unconfigured ==
    \/ account = NoValue
    \/ ~TruthyValue(account.caldav_url)
    \/ ~TruthyValue(account.caldav_password)

ConfigMessage ==
    IF account = NoValue THEN "Account not found" ELSE "CalDAV credentials not configured"

\* C25: with an account that is missing or has no server url or no password,
\* every operation ends with the configuration error (testConnection reports
\* it as its failure message); no client is constructed or cached, no login
\* happens, no request reaches the server, no fetch or write is started and
\* no identifier is generated.
C25_ConfigurationError ==
    [][(Unconfigured /\ davOps' = davOps + 1) =>
           /\ IF davCall'.name = "testConnection"
              THEN davResult' = Returned([success |-> FALSE, message |-> ConfigMessage])
              ELSE davResult' = [tag |-> "thrown", cause |-> "config",
                                 message |-> ConfigMessage]
           /\ client = Null /\ client' = Null
           /\ ~clientLoggedIn'
           /\ ~davUnauth'
           /\ davPc' = "idle"
           /\ davWrite' = NoValue
           /\ server' = server
           /\ etagCount' = etagCount
           /\ nextUuid' = nextUuid]_vars

\* the second operation on an account without password, a createEvent, ended
\* with the configuration error and nothing is cached
C25_Witness ==
    /\ account # NoValue
    /\ account.caldav_url = "https://dav.example"
    /\ account.caldav_password = Null
    /\ davOps = 2
    /\ davCall # NoValue
    /\ davCall.name = "createEvent"
    /\ davResult = [tag |-> "thrown", cause |-> "config",
                    message |-> "CalDAV credentials not configured"]
    /\ client = Null
    /\ nextUuid = 1

-----------------------------------------------------------------------------
(* Properties of providerFactory *)

\* the step is a getCalendarProvider(a) call
GetStep(a) ==
    facOps' = facOps + 1 /\ facCall' = [name |-> "getCalendarProvider", accountId |-> a]

\* C14: a getCalendarProvider call for an account whose provider was returned
\* before and not invalidated since returns that same object without reading
\* the account; otherwise it reads the account once and a provider it returns
\* is a new object; removeCalendarProvider(a) leaves the entries of all other
\* accounts as they were
C14_Memoized ==
    [][\A a \in AccountIds :
          /\ GetStep(a) =>
                 IF facValid[a] # NoValue
                 THEN /\ facResult' = Returned(facValid[a])
                      /\ accountReads' = accountReads
                 ELSE /\ accountReads' = [accountReads EXCEPT ![a] = @ + 1]
                      /\ facResult'.tag = "returned" =>
                             /\ facResult'.value.id >= nextInstance
                             /\ nextInstance' > facResult'.value.id
          /\ (facOps' = facOps + 1
                /\ facCall' = [name |-> "removeCalendarProvider", accountId |-> a]) =>
                 \A b \in AccountIds \ {a} : providerCache'[b] = providerCache[b]]_vars

\* an account was resolved, invalidated and resolved again: the second
\* provider is another object and the account was read twice
C14_Witness ==
    /\ facResult.tag = "returned"
    /\ facResult.value.id = 2
    /\ accountReads[facResult.value.accountId] = 2
    /\ facThrown = {}
    /\ facSupport = NoValue

\* C15: an uncached getCalendarProvider(a) returns a caldav provider when
\* provider is 'caldav' or calendar_provider is 'caldav' with a caldav_url
\* set, else a google_api provider when provider is 'gmail_api' or
\* calendar_provider is 'google_api', else throws 'No calendar provider
\* configured for account a'; without an account row it throws 'Account a
\* not found'; a call that throws leaves the cache as it was
C15_Selection ==
    [][\A a \in AccountIds :
          (GetStep(a) /\ facValid[a] = NoValue) =>
              LET row == accounts[a]
              IN  IF row = NoValue
                  THEN /\ facResult' = [tag |-> "thrown",
                                        message |-> <<"Account ", a, " not found">>]
                       /\ providerCache' = providerCache
                  ELSE IF \/ row.provider = "caldav"
                          \/ row.calendar_provider = "caldav" /\ row.caldav_url \notin {Null, ""}
                  THEN facResult'.tag = "returned" /\ facResult'.value.type = "caldav"
                  ELSE IF row.provider = "gmail_api" \/ row.calendar_provider = "google_api"
                  THEN facResult'.tag = "returned" /\ facResult'.value.type = "google_api"
                  ELSE /\ facResult' = [tag |-> "thrown",
                                        message |-> <<"No calendar provider configured for account ", a>>]
                       /\ providerCache' = providerCache]_vars

\* a resolution failed for an account, and a later one succeeded
C15_Witness ==
    /\ facResult.tag = "returned"
    /\ facResult.value.accountId \in facThrown

\* C37: hasCalendarSupport(a) returns true exactly when an uncached
\* getCalendarProvider(a) resolves a provider from the account row, and
\* false when there is no account row.
C37_SupportMatchesResolution ==
    (facCall # NoValue /\ facCall.name = "hasCalendarSupport") =>
        LET row == accounts[facCall.accountId]
        IN  facSupport = (row # NoValue /\ SelectProvider(row) # Null)

\* C35: when callers run concurrently from an empty cache and the
\* configuration is not changed, every caller that was returned a provider
\* was returned the same object, and that object is the one in the cache.
C35_OneInstanceForAll ==
    rcVersion = 0 =>
        \A c \in RaceCallers :
            (rcGot[c] # NoValue /\ rcGot[c].tag = "returned") =>
                /\ rcGot[c].value = providerCache[RaceAccount]
                /\ \A d \in RaceCallers :
                       (rcGot[d] # NoValue /\ rcGot[d].tag = "returned") =>
                           rcGot[d].value = rcGot[c].value

\* C36: once removeCalendarProvider has returned after a configuration
\* change, the cache never holds a provider resolved from a configuration
\* read before that change.
C36_InvalidationSticks ==
    (rcInvalidated # -1 /\ providerCache[RaceAccount] # NoValue) =>
        rcCacheVersion >= rcInvalidated

\* the rows of the account marked primary
PrimaryRows == {r \in calTable : r.account_id = AccountId /\ r.is_primary = 1}

\* C38: after any sequence of completed discoveries at most one calendar
\* of the account is marked primary.
C38_OnePrimary == calPc = "idle" => Cardinality(PrimaryRows) <= 1

\* the step is an upsertCalendar call for a calendar that has a row
ConflictingUpsert ==
    /\ DiscoverUpsert
    /\ \E r \in calTable : CalendarConflicts(r, UpsertCalendarArg(Head(calPending)))

\* the existing row the call of this step conflicts with
ExistingCalendar ==
    CHOOSE r \in calTable : CalendarConflicts(r, UpsertCalendarArg(Head(calPending)))

\* C39 as stated: an upsertCalendar call for an existing calendar changes
\* display_name, color and is_primary of its row and nothing else, and
\* returns the id of that row.
C39_OnlyThreeColumns ==
    [][ConflictingUpsert =>
           /\ calTable' = (calTable \ {ExistingCalendar}) \cup
                  {[ExistingCalendar EXCEPT
                       !.display_name = Head(calPending).displayName,
                       !.color = Head(calPending).color,
                       !.is_primary = IF Head(calPending).isPrimary THEN 1 ELSE 0]}
           /\ calLast'.returned = ExistingCalendar.id]_vars

\* C39, amended: an upsertCalendar call for an existing calendar changes
\* display_name, color, is_primary and the updated_at timestamp of its row
\* and nothing else (id, is_visible, sync_token, ctag and every other row
\* stay as they were), and returns the id of that row, not the generated one.
C39_ConflictUpdate ==
    [][ConflictingUpsert =>
           /\ calTable' = (calTable \ {ExistingCalendar}) \cup
                  {[ExistingCalendar EXCEPT
                       !.display_name = Head(calPending).displayName,
                       !.color = Head(calPending).color,
                       !.is_primary = IF Head(calPending).isPrimary THEN 1 ELSE 0,
                       !.updated_at = dbTime]}
           /\ calLast'.returned = ExistingCalendar.id
           /\ calLast'.returned # calNextId]_vars

\* C39 witness: a hidden calendar with a stored sync token was upserted
\* again under another name and primary flag, at a later database time
C39_Witness ==
    /\ calLast # NoValue
    /\ \E r \in calLast.before :
          /\ CalendarConflicts(r, calLast.calendar)
          /\ r.is_visible = 0
          /\ r.sync_token = "s1"
          /\ r.display_name # calLast.calendar.displayName
          /\ r.is_primary = 1
          /\ ~calLast.calendar.isPrimary
          /\ calLast.returned = r.id
          /\ \E q \in calTable : q.id = r.id /\ q.updated_at > r.updated_at

-----------------------------------------------------------------------------
(* Properties of GoogleCalendarProvider.updateEvent *)

\* C18: the PATCH body holds a field exactly when the caller provided it:
\* summary, description, location, and start / end for startTime / endTime,
\* also when only one of the two is provided
C18_PartialPatch ==
    updCall # NoValue =>
        /\ \A f \in {"summary", "description", "location"} :
               Has(updBody, f) <=> Has(updCall, f)
        /\ Has(updBody, "start") <=> Has(updCall, "startTime")
        /\ Has(updBody, "end") <=> Has(updCall, "endTime")

-----------------------------------------------------------------------------
(* Properties of the reconciliation *)

\* the cache holds, for every event of calendar c, a state the backend had at
\* or after the persisted sync token
NoChangeSkipped ==
    \A c \in RecCalendars, e \in RecRemoteIds :
        \E n \in TokenPos(calendarRows[c].sync_token)..Len(remoteLog[c]) :
            (<<c, e>> \in recCache) <=> Exists(remoteLog[c], e, n)

-----------------------------------------------------------------------------
(* Properties of CalDAVProvider.getClient under concurrency *)

\* C22: however the operations started on an instance without a client
\* interleave, login() is called at most once, and exactly once when an
\* operation has got its client, and no operation sends a request over a
\* client whose login() has not resolved.
C22_SingleFlight ==
    /\ sessLogins <= 1
    /\ (\E o \in SessOps : sessPc[o] \in {"request", "done"}) => sessLogins = 1
    /\ sessEarlyUse = {}

====
